---------------------------- MODULE Spec2Model ----------------------------
(***************************************************************************)
(* Model of the learning-pathway service: the in-memory graph store        *)
(* (src/database/memory.ts), the pathway assembler (src/services/          *)
(* pathway.ts) and the resource discovery and ranking of                   *)
(* EnhancedResourceFetcher (src/services/resource-fetcher.ts).             *)
(*                                                                         *)
(* Numbers.  Strengths, ratings, provider quality scores and scores are    *)
(* decimal fractions in the source; the model keeps them exactly, as       *)
(* integers in tenths (strength 0.8 is 8, rating 4.2 is 42).  A confidence *)
(* is the pair [total, count] standing for total / (10 * count), compared  *)
(* by cross-multiplication, and an edge weight 1/strength is the integer   *)
(* WeightScale * 10 \div strength.  IEEE rounding is not modelled.         *)
(*                                                                         *)
(* Strings are TLA+ strings; toLowerCase, the whitespace replacement and   *)
(* includes() are computed character by character.                         *)
(***************************************************************************)
EXTENDS Integers, Sequences, FiniteSets, TLC

VARIABLES
    nodes,          \* this.nodes: Map id -> GraphNode, in insertion order
    edges,          \* this.edges: Map from-id -> Set of to-ids
    relationships,  \* this.relationships: Map "from-to" -> Relationship[]
    pc,             \* position of the generatePathway call in flight
    request,        \* its PathwayRequest
    pathResult,     \* the PathResult findShortestPath gave it
    cause,          \* the internal error the call caught (never exposed)
    resources,      \* per skill gap: the resources of its discovery, or pending
    response,       \* what the call returned or threw
    previous,       \* the call completed before this one, with the store it saw
    touched,        \* whether the store was written since the call started
    fpc,            \* position of the findVerifiedResources call in flight
    skillName,      \* its argument
    grokResults,    \* what the external search provider answered
    allResults,     \* its local allResults
    seenUrls,       \* its local seenUrls
    ranked,         \* input and output of its scoreAndRankResources call
    fetched,        \* what findVerifiedResources returned
    gapsA, gapsB,   \* two lists of skill gaps
    timeA, timeB,   \* calculateEstimatedTime of each, once computed
    milestones      \* generateMilestones of the first gap of gapsA, once called

graphVars == <<nodes, edges, relationships>>
genVars   == <<pc, request, pathResult, cause, resources, response, previous, touched>>
fetchVars == <<fpc, skillName, grokResults, allResults, seenUrls, ranked, fetched>>
timeVars  == <<gapsA, gapsB, timeA, timeB, milestones>>
vars      == <<graphVars, genVars, fetchVars, timeVars>>

-----------------------------------------------------------------------------
(* JavaScript string primitives *)

LowerChar(c) ==
    CASE c = "A" -> "a" [] c = "B" -> "b" [] c = "C" -> "c" [] c = "D" -> "d"
      [] c = "E" -> "e" [] c = "F" -> "f" [] c = "G" -> "g" [] c = "H" -> "h"
      [] c = "I" -> "i" [] c = "J" -> "j" [] c = "K" -> "k" [] c = "L" -> "l"
      [] c = "M" -> "m" [] c = "N" -> "n" [] c = "O" -> "o" [] c = "P" -> "p"
      [] c = "Q" -> "q" [] c = "R" -> "r" [] c = "S" -> "s" [] c = "T" -> "t"
      [] c = "U" -> "u" [] c = "V" -> "v" [] c = "W" -> "w" [] c = "X" -> "x"
      [] c = "Y" -> "y" [] c = "Z" -> "z" [] OTHER -> c

\* strings are mapped by halves, which keeps the evaluation shallow
RECURSIVE toLowerCase(_)
toLowerCase(s) ==
    IF Len(s) = 0 THEN ""
    ELSE IF Len(s) = 1 THEN LowerChar(s)
    ELSE LET half == Len(s) \div 2 IN
         toLowerCase(SubSeq(s, 1, half)) \o toLowerCase(SubSeq(s, half + 1, Len(s)))

charAt(s, i) == SubSeq(s, i, i)

IsWhitespace(c) == c \in {" ", "\t", "\n"}

\* s.replace(/\s+/g, '-') on the characters lo..hi of s: every maximal run
\* of whitespace becomes one '-', written where the run ends
RECURSIVE replaceWhitespaceIn(_, _, _)
replaceWhitespaceIn(s, lo, hi) ==
    IF lo > hi THEN ""
    ELSE IF lo = hi
    THEN (IF ~IsWhitespace(charAt(s, lo)) THEN charAt(s, lo)
          ELSE IF lo < Len(s) /\ IsWhitespace(charAt(s, lo + 1)) THEN ""
          ELSE "-")
    ELSE LET mid == (lo + hi) \div 2 IN
         replaceWhitespaceIn(s, lo, mid) \o replaceWhitespaceIn(s, mid + 1, hi)

replaceWhitespace(s) == replaceWhitespaceIn(s, 1, Len(s))

\* s.includes(sub)
includes(s, sub) ==
    \E i \in 1..(Len(s) - Len(sub) + 1) : SubSeq(s, i, i + Len(sub) - 1) = sub

\* array.includes(x)
arrayIncludes(arr, x) == \E i \in 1..Len(arr) : arr[i] = x

\* array.slice(0, n)
slice(arr, n) == SubSeq(arr, 1, IF Len(arr) < n THEN Len(arr) ELSE n)

-----------------------------------------------------------------------------
(* The graph store: src/database/memory.ts *)

null == [type |-> "null"]

skillId(name) == "skill-" \o replaceWhitespace(toLowerCase(name))
roleId(name)  == "role-" \o replaceWhitespace(toLowerCase(name))

nodeIds(ns) == {ns[i].id : i \in 1..Len(ns)}

\* Map.set: a new key goes last, an existing key keeps its place
mapSet(ns, node) ==
    IF \E i \in 1..Len(ns) : ns[i].id = node.id
    THEN [i \in 1..Len(ns) |-> IF ns[i].id = node.id THEN node ELSE ns[i]]
    ELSE Append(ns, node)

\* Map.get on this.nodes
nodeOf(ns, id) == ns[CHOOSE i \in 1..Len(ns) : ns[i].id = id]

\* the GraphNode addSkill and addRole build
skillAsNode(skill) == [id |-> skillId(skill.name), type |-> "skill", properties |-> skill]
roleAsNode(role)   == [id |-> roleId(role.name), type |-> "role", properties |-> role]

addSkill(ns, skill) == mapSet(ns, skillAsNode(skill))
addRole(ns, role)   == mapSet(ns, roleAsNode(role))

relKey(from, to) == from \o "-" \o to

\* this.edges after createRelationship(from, to, _)
edgesAdd(es, from, to) ==
    [k \in DOMAIN es \cup {from} |->
        IF k = from THEN (IF from \in DOMAIN es THEN es[from] ELSE {}) \cup {to}
        ELSE es[k]]

\* this.relationships after createRelationship(from, to, rel)
relationshipsAdd(rs, from, to, rel) ==
    LET key == relKey(from, to) IN
    [k \in DOMAIN rs \cup {key} |->
        IF k = key THEN Append(IF key \in DOMAIN rs THEN rs[key] ELSE <<>>, rel)
        ELSE rs[k]]

\* this.relationships.get(`${from}-${to}`) || []
relationshipsOf(rs, from, to) ==
    IF relKey(from, to) \in DOMAIN rs THEN rs[relKey(from, to)] ELSE <<>>

emptyMap == [k \in {} |-> {}]

\* findNode: the first node, in insertion order, of that type and exact name
findNode(ns, name, type) ==
    LET hits == {i \in 1..Len(ns) : ns[i].type = type /\ ns[i].properties.name = name}
    IN IF hits = {} THEN null
       ELSE ns[CHOOSE i \in hits : \A j \in hits : i <= j]

\* weights are kept as integers: WeightScale * (1 / strength)
WeightScale == 2 * 2 * 2 * 3 * 3 * 5 * 7

\* relationships[0].properties.strength || 0.5
strengthOrDefault(s) == IF s = 0 THEN 5 ELSE s

getEdgeWeight(rs, from, to) ==
    LET rels == relationshipsOf(rs, from, to) IN
    IF Len(rels) = 0 THEN WeightScale
    ELSE (WeightScale * 10) \div strengthOrDefault(rels[1].strength)
roleSkillMap ==
  <<
    [role |-> "AI-Enhanced Customer Experience Specialist", skills |-> <<
        [name |-> "AI-Powered Customer Analytics", category |-> "Analytics", difficulty |-> "beginner", estimatedHours |-> 25],
        [name |-> "Conversational AI Management", category |-> "AI", difficulty |-> "intermediate", estimatedHours |-> 30],
        [name |-> "Customer Journey Automation", category |-> "Technology", difficulty |-> "intermediate", estimatedHours |-> 35]>>],
    [role |-> "AI-Enhanced Administrative Coordinator", skills |-> <<
        [name |-> "Workflow Automation Tools", category |-> "Technology", difficulty |-> "beginner", estimatedHours |-> 20],
        [name |-> "AI-Assisted Scheduling", category |-> "AI", difficulty |-> "beginner", estimatedHours |-> 15],
        [name |-> "Document Intelligence Systems", category |-> "Technology", difficulty |-> "intermediate", estimatedHours |-> 25]>>],
    [role |-> "AI-Enhanced Financial Services Advisor", skills |-> <<
        [name |-> "FinTech AI Applications", category |-> "Finance", difficulty |-> "intermediate", estimatedHours |-> 40],
        [name |-> "Robo-Advisory Platforms", category |-> "Finance", difficulty |-> "intermediate", estimatedHours |-> 30],
        [name |-> "Financial Risk AI Analysis", category |-> "Analytics", difficulty |-> "advanced", estimatedHours |-> 45]>>],
    [role |-> "AI-Enhanced Healthcare Information Manager", skills |-> <<
        [name |-> "Healthcare AI Systems", category |-> "Healthcare", difficulty |-> "intermediate", estimatedHours |-> 35],
        [name |-> "Medical Data Analytics", category |-> "Analytics", difficulty |-> "intermediate", estimatedHours |-> 40],
        [name |-> "Health Information Automation", category |-> "Technology", difficulty |-> "intermediate", estimatedHours |-> 30]>>],
    [role |-> "AI-Enhanced Retail Operations Manager", skills |-> <<
        [name |-> "Inventory Optimization AI", category |-> "Operations", difficulty |-> "intermediate", estimatedHours |-> 35],
        [name |-> "Customer Behavior Analytics", category |-> "Analytics", difficulty |-> "beginner", estimatedHours |-> 30],
        [name |-> "Retail Automation Systems", category |-> "Technology", difficulty |-> "intermediate", estimatedHours |-> 40]>>],
    [role |-> "AI-Enhanced Human Resources Specialist", skills |-> <<
        [name |-> "AI Recruitment Tools", category |-> "HR", difficulty |-> "beginner", estimatedHours |-> 25],
        [name |-> "People Analytics", category |-> "Analytics", difficulty |-> "intermediate", estimatedHours |-> 35],
        [name |-> "Employee Experience AI", category |-> "HR", difficulty |-> "intermediate", estimatedHours |-> 30]>>],
    [role |-> "AI-Enhanced Marketing Communications Manager", skills |-> <<
        [name |-> "AI Content Generation", category |-> "Marketing", difficulty |-> "beginner", estimatedHours |-> 20],
        [name |-> "Marketing Automation Platforms", category |-> "Technology", difficulty |-> "intermediate", estimatedHours |-> 35],
        [name |-> "Campaign Performance AI", category |-> "Analytics", difficulty |-> "intermediate", estimatedHours |-> 30]>>],
    [role |-> "AI-Enhanced Operations Analyst", skills |-> <<
        [name |-> "Process Mining and AI", category |-> "Operations", difficulty |-> "intermediate", estimatedHours |-> 40],
        [name |-> "Predictive Operations Analytics", category |-> "Analytics", difficulty |-> "advanced", estimatedHours |-> 45],
        [name |-> "Business Intelligence AI", category |-> "Analytics", difficulty |-> "intermediate", estimatedHours |-> 35]>>],
    [role |-> "AI-Enhanced Quality Assurance Coordinator", skills |-> <<
        [name |-> "Automated Testing with AI", category |-> "Quality", difficulty |-> "intermediate", estimatedHours |-> 35],
        [name |-> "Quality Analytics and Prediction", category |-> "Analytics", difficulty |-> "intermediate", estimatedHours |-> 30],
        [name |-> "AI-Driven Process Improvement", category |-> "Operations", difficulty |-> "intermediate", estimatedHours |-> 40]>>],
    [role |-> "AI-Enhanced Business Intelligence Analyst", skills |-> <<
        [name |-> "Advanced AI Analytics", category |-> "Analytics", difficulty |-> "advanced", estimatedHours |-> 50],
        [name |-> "Machine Learning for Business", category |-> "AI", difficulty |-> "intermediate", estimatedHours |-> 45],
        [name |-> "Data Storytelling with AI", category |-> "Analytics", difficulty |-> "intermediate", estimatedHours |-> 30]>>],
    [role |-> "AI-Enhanced Content Strategy Manager", skills |-> <<
        [name |-> "AI Content Planning", category |-> "Content", difficulty |-> "beginner", estimatedHours |-> 25],
        [name |-> "Content Performance AI", category |-> "Analytics", difficulty |-> "intermediate", estimatedHours |-> 30],
        [name |-> "SEO and AI Optimization", category |-> "Marketing", difficulty |-> "intermediate", estimatedHours |-> 35]>>],
    [role |-> "AI-Enhanced Sales Development Representative", skills |-> <<
        [name |-> "Sales AI and CRM", category |-> "Sales", difficulty |-> "beginner", estimatedHours |-> 25],
        [name |-> "Lead Scoring with AI", category |-> "Sales", difficulty |-> "intermediate", estimatedHours |-> 30],
        [name |-> "Sales Forecasting AI", category |-> "Analytics", difficulty |-> "intermediate", estimatedHours |-> 35]>>],
    [role |-> "AI-Enhanced Process Improvement Specialist", skills |-> <<
        [name |-> "Process Automation Design", category |-> "Operations", difficulty |-> "intermediate", estimatedHours |-> 40],
        [name |-> "AI-Driven Efficiency Analysis", category |-> "Analytics", difficulty |-> "intermediate", estimatedHours |-> 35],
        [name |-> "Change Management with AI", category |-> "Management", difficulty |-> "intermediate", estimatedHours |-> 30]>>],
    [role |-> "AI-Enhanced Training and Development Coordinator", skills |-> <<
        [name |-> "AI-Powered Learning Platforms", category |-> "Education", difficulty |-> "beginner", estimatedHours |-> 25],
        [name |-> "Learning Analytics", category |-> "Analytics", difficulty |-> "intermediate", estimatedHours |-> 30],
        [name |-> "Personalized Learning AI", category |-> "Education", difficulty |-> "intermediate", estimatedHours |-> 35]>>],
    [role |-> "AI-Enhanced Compliance and Risk Analyst", skills |-> <<
        [name |-> "RegTech and AI Compliance", category |-> "Compliance", difficulty |-> "intermediate", estimatedHours |-> 40],
        [name |-> "Risk Prediction AI", category |-> "Analytics", difficulty |-> "advanced", estimatedHours |-> 45],
        [name |-> "Automated Compliance Monitoring", category |-> "Technology", difficulty |-> "intermediate", estimatedHours |-> 35]>>],
    [role |-> "AI-Enhanced Event Coordination Manager", skills |-> <<
        [name |-> "Event Planning AI Tools", category |-> "Events", difficulty |-> "beginner", estimatedHours |-> 20],
        [name |-> "Attendee Experience Analytics", category |-> "Analytics", difficulty |-> "beginner", estimatedHours |-> 25],
        [name |-> "Virtual Event Technology", category |-> "Technology", difficulty |-> "intermediate", estimatedHours |-> 30]>>],
    [role |-> "AI-Enhanced Research and Insights Analyst", skills |-> <<
        [name |-> "AI Research Methodologies", category |-> "Research", difficulty |-> "intermediate", estimatedHours |-> 35],
        [name |-> "Data Mining with AI", category |-> "Analytics", difficulty |-> "advanced", estimatedHours |-> 40],
        [name |-> "Insight Generation AI", category |-> "Analytics", difficulty |-> "intermediate", estimatedHours |-> 35]>>],
    [role |-> "AI-Enhanced Digital Marketing Specialist", skills |-> <<
        [name |-> "Digital Marketing AI Tools", category |-> "Marketing", difficulty |-> "beginner", estimatedHours |-> 25],
        [name |-> "Programmatic Advertising", category |-> "Marketing", difficulty |-> "intermediate", estimatedHours |-> 35],
        [name |-> "Marketing Attribution AI", category |-> "Analytics", difficulty |-> "intermediate", estimatedHours |-> 30]>>],
    [role |-> "AI-Enhanced Supply Chain Coordinator", skills |-> <<
        [name |-> "Supply Chain AI Optimization", category |-> "Operations", difficulty |-> "intermediate", estimatedHours |-> 40],
        [name |-> "Demand Forecasting AI", category |-> "Analytics", difficulty |-> "intermediate", estimatedHours |-> 35],
        [name |-> "Logistics Automation", category |-> "Technology", difficulty |-> "intermediate", estimatedHours |-> 30]>>],
    [role |-> "AI-Enhanced Customer Success Manager", skills |-> <<
        [name |-> "Customer Health Scoring AI", category |-> "Customer Success", difficulty |-> "beginner", estimatedHours |-> 25],
        [name |-> "Churn Prediction Models", category |-> "Analytics", difficulty |-> "intermediate", estimatedHours |-> 35],
        [name |-> "Customer Lifecycle Automation", category |-> "Technology", difficulty |-> "intermediate", estimatedHours |-> 30]>>]
  >>

\* the unvisited node with minimum finite distance, the first in iteration
\* order among equals ("distance < minDistance"); null when none is finite
minUnvisited(dist, unvisited) ==
    LET finite == {i \in 1..Len(unvisited) : unvisited[i] \in DOMAIN dist}
    IN IF finite = {} THEN null
       ELSE [type |-> "id",
             id |-> unvisited[CHOOSE i \in finite : \A j \in finite :
                       \/ dist[unvisited[i]] < dist[unvisited[j]]
                       \/ (dist[unvisited[i]] = dist[unvisited[j]] /\ i <= j)]]

\* a variant of that loop that stops before the node without previous
RECURSIVE reconstructPathWithoutOrigin(_, _, _)
reconstructPathWithoutOrigin(prev, current, path) ==
    IF current \in DOMAIN prev
    THEN reconstructPathWithoutOrigin(prev, prev[current], <<current>> \o path)
    ELSE path

\* the while loop that walks previous back from endId, unshifting each node
RECURSIVE reconstructPath(_, _, _)
reconstructPath(prev, current, path) ==
    IF current \in DOMAIN prev
    THEN reconstructPath(prev, prev[current], <<current>> \o path)
    ELSE <<current>> \o path

\* the "Check neighbors" loop: relax every unvisited neighbour of current.
\* Each neighbour is updated from current alone, so the order of the Set
\* does not matter.
relaxed(es, rs, dist, unvisited, current) ==
    LET neighbors == IF current \in DOMAIN es THEN es[current] ELSE {}
        open      == {unvisited[i] : i \in 1..Len(unvisited)}
    IN {n \in neighbors \cap open :
           \/ n \notin DOMAIN dist
           \/ dist[current] + getEdgeWeight(rs, current, n) < dist[n]}

\* the main while loop of dijkstra; a distance of Infinity is an id outside
\* DOMAIN dist, a previous of null an id outside DOMAIN prev
RECURSIVE dijkstraLoop(_, _, _, _, _, _)
dijkstraLoop(es, rs, endId, dist, prev, unvisited) ==
    LET pick == minUnvisited(dist, unvisited) IN
    IF pick = null THEN <<>>
    ELSE LET current == pick.id
             rest    == SelectSeq(unvisited, LAMBDA id : id # current)
         IN IF current = endId THEN reconstructPath(prev, endId, <<>>)
            ELSE LET upd == relaxed(es, rs, dist, rest, current) IN
                 dijkstraLoop(es, rs, endId,
                     [n \in DOMAIN dist \cup upd |->
                         IF n \in upd
                         THEN dist[current] + getEdgeWeight(rs, current, n)
                         ELSE dist[n]],
                     [n \in DOMAIN prev \cup upd |->
                         IF n \in upd THEN current ELSE prev[n]],
                     rest)

dijkstra(ns, es, rs, startId, endId) ==
    dijkstraLoop(es, rs, endId,
                 [n \in {startId} \cap nodeIds(ns) |-> 0],
                 [n \in {} |-> ""],
                 [i \in 1..Len(ns) |-> ns[i].id])

\* confidences: [total, count] is total / (10 * count)
conf(total, count) == [total |-> total, count |-> count]
confGreater(a, b) == a.total * b.count > b.total * a.count
confEqual(a, b)   == a.total * b.count = b.total * a.count

RECURSIVE sumStrength(_, _, _)
sumStrength(rs, path, i) ==
    IF i >= Len(path) THEN 0
    ELSE LET rels == relationshipsOf(rs, path[i], path[i + 1]) IN
         (IF Len(rels) = 0 THEN 5 ELSE strengthOrDefault(rels[1].strength))
         + sumStrength(rs, path, i + 1)

calculatePathConfidence(rs, path) ==
    IF Len(path) <= 1 THEN conf(10, 1)
    ELSE conf(sumStrength(rs, path, 1), Len(path) - 1)

estimateHours(difficulty) ==
    CASE difficulty = "beginner" -> 15
      [] difficulty = "intermediate" -> 25
      [] difficulty = "advanced" -> 40
      [] OTHER -> 20

\* keys every object literal inherits from Object.prototype: a lookup
\* table[key] with one of them yields the inherited (truthy) member, which
\* "|| []" keeps and on which array methods do not exist
ObjectPrototypeKeys ==
    {"constructor", "toString", "toLocaleString", "valueOf", "hasOwnProperty",
     "isPrototypeOf", "propertyIsEnumerable", "__proto__"}

\* roleSkillMap[roleName] || [], for a roleName outside ObjectPrototypeKeys
getRequiredSkillsForRole(roleName) ==
    LET hits == {i \in 1..Len(roleSkillMap) : roleSkillMap[i].role = roleName}
    IN IF hits = {} THEN <<>> ELSE roleSkillMap[CHOOSE i \in hits : TRUE].skills

hasFallbackEntry(roleName) ==
    \E i \in 1..Len(roleSkillMap) : roleSkillMap[i].role = roleName

\* bestPath.filter(skill node whose name the caller did not give).map(...)
RECURSIVE extractSkillGaps(_, _)
extractSkillGaps(path, fromSkills) ==
    IF path = <<>> THEN <<>>
    ELSE LET node == Head(path) IN
         (IF node.type = "skill" /\ ~arrayIncludes(fromSkills, node.properties.name)
          THEN <<[name |-> node.properties.name,
                  category |-> node.properties.category,
                  difficulty |-> node.properties.difficulty,
                  estimatedHours |-> estimateHours(node.properties.difficulty)]>>
          ELSE <<>>)
         \o extractSkillGaps(Tail(path), fromSkills)

\* the "for (const skillName of fromSkills)" loop; best holds bestPath,
\* skillGaps and maxConfidence
RECURSIVE originLoop(_, _, _, _, _, _, _)
originLoop(ns, es, rs, fromSkills, i, targetNode, best) ==
    IF i > Len(fromSkills) THEN best
    ELSE LET skillNode == findNode(ns, fromSkills[i], "skill") IN
         IF skillNode = null
         THEN originLoop(ns, es, rs, fromSkills, i + 1, targetNode, best)
         ELSE LET path == dijkstra(ns, es, rs, skillNode.id, targetNode.id)
                  pathConfidence == calculatePathConfidence(rs, path)
              IN IF Len(path) > 0 /\ confGreater(pathConfidence, best.maxConfidence)
                 THEN LET bestPath == [k \in 1..Len(path) |-> nodeOf(ns, path[k])] IN
                      originLoop(ns, es, rs, fromSkills, i + 1, targetNode,
                          [bestPath |-> bestPath,
                           skillGaps |-> extractSkillGaps(bestPath, fromSkills),
                           maxConfidence |-> pathConfidence])
                 ELSE originLoop(ns, es, rs, fromSkills, i + 1, targetNode, best)

FallbackConfidence == conf(6, 1)

\* a variant that returns every skill gap
limitSkillGapsUncapped(skillGaps) == skillGaps

\* the cap of the returned skill gaps: skillGaps.slice(0, 3)
limitSkillGaps(skillGaps) == slice(skillGaps, 3)

\* the fallback branch: "if (bestPath.length === 0)"
withFallback(best, toRole) ==
    IF Len(best.bestPath) = 0
    THEN [best EXCEPT !.skillGaps = getRequiredSkillsForRole(toRole),
                      !.maxConfidence = FallbackConfidence]
    ELSE best

failure(error) ==
    [error |-> error, path |-> <<>>, skillGaps |-> <<>>, confidence |-> conf(0, 1)]

\* error is "none" for a returned PathResult, else what was thrown
findShortestPath(ns, es, rs, fromSkills, toRole) ==
    LET targetNode == findNode(ns, toRole, "role") IN
    IF targetNode = null THEN failure("RoleNotFound")
    ELSE LET best == originLoop(ns, es, rs, fromSkills, 1, targetNode,
                         [bestPath |-> <<>>, skillGaps |-> <<>>,
                          maxConfidence |-> conf(0, 1)])
         IN IF Len(best.bestPath) = 0 /\ toRole \in ObjectPrototypeKeys
            THEN failure("TypeError")   \* skillGaps.slice is not a function
            ELSE LET final == withFallback(best, toRole) IN
                 [error |-> "none",
                  path |-> final.bestPath,
                  skillGaps |-> limitSkillGaps(final.skillGaps),
                  confidence |-> final.maxConfidence]

\* getRoleAlternatives: the other roles of the target role's category
RECURSIVE sameCategoryRoles(_, _, _)
sameCategoryRoles(ns, category, roleName) ==
    IF ns = <<>> THEN <<>>
    ELSE LET node == Head(ns) IN
         (IF node.type = "role" /\ node.properties.category = category
             /\ node.properties.name # roleName
          THEN <<[role |-> node.properties.name,
                  reason |-> "Similar " \o toLowerCase(category) \o " role",
                  confidence |-> 8]>>
          ELSE <<>>)
         \o sameCategoryRoles(Tail(ns), category, roleName)

getRoleAlternatives(ns, roleName) ==
    LET roleNode == findNode(ns, roleName, "role") IN
    IF roleNode = null THEN <<>>
    ELSE slice(sameCategoryRoles(ns, roleNode.properties.category, roleName), 3)

-----------------------------------------------------------------------------
(* The pathway assembler: src/services/pathway.ts *)

ceilDiv(a, b) == (a + b - 1) \div b
max(a, b) == IF a >= b THEN a ELSE b
min(a, b) == IF a <= b THEN a ELSE b

milestoneTemplates ==
    <<[skill |-> "AI Tools Proficiency", templates |-> <<
         "Complete introduction to AI concepts",
         "Practice with ChatGPT for work tasks",
         "Create AI-assisted project plan",
         "Integrate AI tools into daily workflow">>],
      [skill |-> "Prompt Engineering", templates |-> <<
         "Learn basic prompt structure",
         "Write effective prompts for different scenarios",
         "Develop project-specific prompt templates",
         "Master advanced prompting techniques">>],
      [skill |-> "Process Automation", templates |-> <<
         "Set up basic automation workflow",
         "Automate routine reporting tasks",
         "Create complex multi-step automations",
         "Implement error handling and monitoring">>],
      [skill |-> "Machine Learning Basics", templates |-> <<
         "Understand core ML concepts",
         "Practice with no-code ML tools",
         "Apply ML to business problems",
         "Evaluate and improve models">>],
      [skill |-> "Data Visualization with AI", templates |-> <<
         "Learn AI-powered visualization tools",
         "Create automated dashboard",
         "Build predictive visualizations",
         "Present insights to stakeholders">>]>>

genericTemplates ==
    <<"Complete foundational learning",
      "Apply knowledge to real scenarios",
      "Build practical project",
      "Achieve proficiency level">>

\* decimal digits of a natural number, as template literals print it
RECURSIVE toString(_)
toString(n) ==
    LET digit == SubSeq("0123456789", (n % 10) + 1, (n % 10) + 1) IN
    IF n < 10 THEN digit ELSE toString(n \div 10) \o digit

\* for a skillName outside ObjectPrototypeKeys
generateMilestones(name, totalHours) ==
    LET baseMilestones == max(2, ceilDiv(totalHours, 8))
        hits      == {i \in 1..Len(milestoneTemplates) : milestoneTemplates[i].skill = name}
        templates == IF hits = {} THEN genericTemplates
                     ELSE milestoneTemplates[CHOOSE i \in hits : TRUE].templates
        chosen    == slice(templates, min(baseMilestones, 4))
    IN [index \in 1..Len(chosen) |->
          [id |-> replaceWhitespace(toLowerCase(name)) \o "-" \o toString(index),
           description |-> chosen[index],
           estimatedHours |-> ceilDiv(totalHours, min(baseMilestones, 4))]]

RECURSIVE sumHours(_)
sumHours(gaps) ==
    IF gaps = <<>> THEN 0 ELSE Head(gaps).estimatedHours + sumHours(Tail(gaps))

\* a variant that prints the count of months with the unit of weeks
estimatedTimeOfMonthsAsWeeks(totalHours) ==
    LET weeks == ceilDiv(totalHours, 10) IN
    IF weeks <= 4 THEN toString(weeks) \o " weeks"
    ELSE IF weeks <= 8 THEN toString(ceilDiv(weeks, 4) * 4) \o " weeks"
    ELSE toString(ceilDiv(weeks, 4)) \o " weeks"

\* calculateEstimatedTime, from the summed hours on: the string it prints
estimatedTimeOf(totalHours) ==
    LET weeks == ceilDiv(totalHours, 10) IN
    IF weeks <= 4 THEN toString(weeks) \o " weeks"
    ELSE IF weeks <= 8 THEN toString(ceilDiv(weeks, 4) * 4) \o " weeks"
    ELSE toString(ceilDiv(weeks, 4)) \o " months"

calculateEstimatedTime(gaps) == estimatedTimeOf(sumHours(gaps))

\* the rule table of generateEncouragement: first match wins
generateEncouragement(currentSkills, gaps) ==
    LET strengths == Len(currentSkills)
        n == Len(gaps)
    IN CASE n = 0 -> "Amazing! You already have all the skills needed for this role. You're ready to make the transition!"
         [] n = 1 -> "You're almost there! With your " \o toString(strengths)
                     \o " existing skills, you only need to develop 1 more area to reach your goal."
         [] n = 2 -> "Great foundation! Your " \o toString(strengths)
                     \o " skills give you a strong starting point. Just 2 more skills to master."
         [] n >= 3 -> "Solid base to build from! Your " \o toString(strengths)
                     \o " existing skills show you're ready for this challenge. The "
                     \o toString(n) \o " new skills ahead are totally achievable."
         [] OTHER -> "Every expert was once a beginner. You've got this!"

GenericErrorMessage == "Unable to generate learning pathway"

\* a variant of the catch block that hands on the error it caught
generationErrorExposing(error) == [success |-> FALSE, message |-> error]

\* the catch block of generatePathway: whatever was caught, the same Error
generationError(error) == [success |-> FALSE, message |-> GenericErrorMessage]

\* the object one map() callback returns for a skill gap
enrich(skillGap, found) ==
    [skill |-> skillGap.name,
     priority |-> "core",
     difficulty |-> skillGap.difficulty,
     estimatedHours |-> skillGap.estimatedHours,
     resources |-> slice(found, 3),
     milestones |-> generateMilestones(skillGap.name, skillGap.estimatedHours)]

\* what generatePathway returns once every discovery is in: the catch block's
\* generic error when a callback threw, else the pathway
assemble(ns, req, result, found) ==
    IF \E i \in 1..Len(result.skillGaps) : result.skillGaps[i].name \in ObjectPrototypeKeys
    THEN generationError("TypeError")
    ELSE LET enrichedSkillGaps ==
                 [i \in 1..Len(result.skillGaps) |-> enrich(result.skillGaps[i], found[i])]
         IN [success |-> TRUE,
             targetRole |-> req.role,
             currentSkills |-> req.skills,
             skillGaps |-> enrichedSkillGaps,
             estimatedTime |-> calculateEstimatedTime(enrichedSkillGaps),
             confidenceScore |-> result.confidence,
             alternatives |-> slice(getRoleAlternatives(ns, req.role), 3),
             encouragement |-> generateEncouragement(req.skills, enrichedSkillGaps)]
seedSkills ==
  <<
    [name |-> "Project Management", category |-> "Management", difficulty |-> "intermediate", estimatedHours |-> 0],
    [name |-> "Data Analysis", category |-> "Analytics", difficulty |-> "intermediate", estimatedHours |-> 0],
    [name |-> "AI Tools Proficiency", category |-> "Technology", difficulty |-> "beginner", estimatedHours |-> 20],
    [name |-> "Prompt Engineering", category |-> "AI", difficulty |-> "beginner", estimatedHours |-> 15],
    [name |-> "Process Automation", category |-> "Technology", difficulty |-> "intermediate", estimatedHours |-> 25],
    [name |-> "Machine Learning Basics", category |-> "Analytics", difficulty |-> "intermediate", estimatedHours |-> 30],
    [name |-> "Data Visualization with AI", category |-> "Analytics", difficulty |-> "intermediate", estimatedHours |-> 25]
  >>
seedRoles ==
  <<
    [name |-> "AI-Enhanced Customer Experience Specialist", category |-> "Customer Service", demand |-> "high"],
    [name |-> "AI-Enhanced Administrative Coordinator", category |-> "Administration", demand |-> "high"],
    [name |-> "AI-Enhanced Financial Services Advisor", category |-> "Finance", demand |-> "high"],
    [name |-> "AI-Enhanced Healthcare Information Manager", category |-> "Healthcare", demand |-> "high"],
    [name |-> "AI-Enhanced Retail Operations Manager", category |-> "Retail", demand |-> "high"],
    [name |-> "AI-Enhanced Human Resources Specialist", category |-> "Human Resources", demand |-> "high"],
    [name |-> "AI-Enhanced Marketing Communications Manager", category |-> "Marketing", demand |-> "high"],
    [name |-> "AI-Enhanced Operations Analyst", category |-> "Operations", demand |-> "high"],
    [name |-> "AI-Enhanced Quality Assurance Coordinator", category |-> "Quality", demand |-> "high"],
    [name |-> "AI-Enhanced Business Intelligence Analyst", category |-> "Analytics", demand |-> "high"],
    [name |-> "AI-Enhanced Content Strategy Manager", category |-> "Content", demand |-> "high"],
    [name |-> "AI-Enhanced Sales Development Representative", category |-> "Sales", demand |-> "high"],
    [name |-> "AI-Enhanced Process Improvement Specialist", category |-> "Operations", demand |-> "high"],
    [name |-> "AI-Enhanced Training and Development Coordinator", category |-> "Education", demand |-> "medium"],
    [name |-> "AI-Enhanced Compliance and Risk Analyst", category |-> "Compliance", demand |-> "high"],
    [name |-> "AI-Enhanced Event Coordination Manager", category |-> "Events", demand |-> "medium"],
    [name |-> "AI-Enhanced Research and Insights Analyst", category |-> "Research", demand |-> "high"],
    [name |-> "AI-Enhanced Digital Marketing Specialist", category |-> "Marketing", demand |-> "high"],
    [name |-> "AI-Enhanced Supply Chain Coordinator", category |-> "Operations", demand |-> "high"],
    [name |-> "AI-Enhanced Customer Success Manager", category |-> "Customer Success", demand |-> "high"]
  >>
seedRelationships ==
  <<
    [from |-> "skill-project-management", to |-> "role-ai-enhanced-project-manager", rel |-> [type |-> "LEADS_TO", strength |-> 8]],
    [from |-> "skill-data-analysis", to |-> "role-ai-enhanced-data-analyst", rel |-> [type |-> "LEADS_TO", strength |-> 8]],
    [from |-> "skill-ai-tools-proficiency", to |-> "role-ai-enhanced-project-manager", rel |-> [type |-> "REQUIRED_FOR", strength |-> 9]],
    [from |-> "skill-prompt-engineering", to |-> "role-ai-enhanced-project-manager", rel |-> [type |-> "REQUIRED_FOR", strength |-> 8]],
    [from |-> "skill-process-automation", to |-> "role-ai-enhanced-project-manager", rel |-> [type |-> "REQUIRED_FOR", strength |-> 6]],
    [from |-> "skill-ai-tools-proficiency", to |-> "role-ai-enhanced-data-analyst", rel |-> [type |-> "REQUIRED_FOR", strength |-> 9]],
    [from |-> "skill-machine-learning-basics", to |-> "role-ai-enhanced-data-analyst", rel |-> [type |-> "REQUIRED_FOR", strength |-> 8]],
    [from |-> "skill-data-visualization-with-ai", to |-> "role-ai-enhanced-data-analyst", rel |-> [type |-> "REQUIRED_FOR", strength |-> 7]]
  >>

-----------------------------------------------------------------------------
(* Bounds and input universes *)

MaxNodes == 3       \* nodes a store built by addSkill / addRole may hold
MaxRels == 2        \* relationships createRelationship adds to a store
MaxChainRels == 5   \* relationships added on top of the seeded store

DataAnalysis == [name |-> "Data Analysis", category |-> "Analytics",
                 difficulty |-> "intermediate", estimatedHours |-> 0]
MachineLearning == [name |-> "Machine Learning Basics", category |-> "Analytics",
                    difficulty |-> "intermediate", estimatedHours |-> 30]
SkillInputs == {DataAnalysis, MachineLearning}

DataAnalyst == [name |-> "AI-Enhanced Data Analyst",
                category |-> "Analytics", demand |-> "high"]
\* a role whose name is a key that every JavaScript object inherits
Inherited == [name |-> "constructor", category |-> "Analytics", demand |-> "low"]
RoleInputs == {DataAnalyst, Inherited}

rel(type, strength) == [type |-> type, strength |-> strength]

RelInputs ==
    {[from |-> "skill-data-analysis", to |-> "skill-machine-learning-basics",
      rel |-> rel("LEADS_TO", 8)],
     [from |-> "skill-machine-learning-basics", to |-> "role-ai-enhanced-data-analyst",
      rel |-> rel("REQUIRED_FOR", 6)],
     [from |-> "skill-data-analysis", to |-> "role-ai-enhanced-data-analyst",
      rel |-> rel("REQUIRED_FOR", 9)],
     [from |-> "skill-data-analysis", to |-> "role-ai-enhanced-data-analyst",
      rel |-> rel("LEADS_TO", 3)]}

SkillLists ==
    {<<>>, <<"Data Analysis">>, <<"Machine Learning Basics">>,
     <<"Data Analysis", "Machine Learning Basics">>}
RoleNames == {"AI-Enhanced Data Analyst", "constructor"}

\* requests put to the seeded store
SeedRequests ==
    {[skills |-> <<"Project Management">>, role |-> "AI-Enhanced Project Manager"],
     [skills |-> <<"Project Management">>, role |-> "AI-Enhanced Operations Analyst"],
     [skills |-> <<"AI-Powered Customer Analytics">>,
      role |-> "AI-Enhanced Customer Experience Specialist"],
     [skills |-> <<>>, role |-> "AI-Enhanced Operations Analyst"],
     [skills |-> <<"Process Automation", "Data Analysis">>,
      role |-> "AI-Enhanced Operations Analyst"]}

\* relationships a caller adds on top of the seeded store, in this order: a
\* chain of skills that ends in a seeded role
ChainSkills ==
    <<"skill-project-management", "skill-data-analysis", "skill-ai-tools-proficiency",
      "skill-prompt-engineering", "skill-process-automation",
      "skill-machine-learning-basics", "skill-data-visualization-with-ai">>
ChainRole == "role-ai-enhanced-operations-analyst"
ChainEdge(k) ==
    [from |-> ChainSkills[k],
     to |-> IF k < MaxChainRels THEN ChainSkills[k + 1] ELSE ChainRole,
     rel |-> rel("LEADS_TO", 8)]

\* what one discovery may hand back to generatePathway (at most 3 resources)
Course(title) == [title |-> title, url |-> "https://www.coursera.org/learn/" \o title]
DiscoveryOutcomes == {<<>>, <<Course("a"), Course("b"), Course("c")>>}

-----------------------------------------------------------------------------
(* State *)

noCall == [valid |-> FALSE]
noResponse == [success |-> FALSE, message |-> ""]
noResult == failure("none")
pending == [done |-> FALSE, found |-> <<>>]

RECURSIVE relCountOver(_, _)
relCountOver(rs, keys) ==
    IF keys = {} THEN 0
    ELSE LET k == CHOOSE x \in keys : TRUE IN Len(rs[k]) + relCountOver(rs, keys \ {k})
relCount(rs) == relCountOver(rs, DOMAIN rs)

InitGraph ==
    /\ nodes = <<>>
    /\ edges = emptyMap
    /\ relationships = [k \in {} |-> <<>>]

InitGen ==
    /\ pc = "idle"
    /\ request = [skills |-> <<>>, role |-> ""]
    /\ pathResult = noResult
    /\ cause = "none"
    /\ resources = <<>>
    /\ response = noResponse
    /\ previous = noCall
    /\ touched = FALSE

-----------------------------------------------------------------------------
(* Store operations *)

\* A write by a caller of the store.  The store's writers (seedData, the
\* shutdown handler) run between requests or while a request waits for its
\* discoveries; a response already handed back is not kept across a write.
written ==
    IF pc = "enrich"
    THEN /\ touched' = TRUE
         /\ previous' = noCall
         /\ UNCHANGED <<pc, request, pathResult, cause, resources, response>>
    ELSE /\ pc' = "idle"
         /\ request' = [skills |-> <<>>, role |-> ""]
         /\ pathResult' = noResult
         /\ cause' = "none"
         /\ resources' = <<>>
         /\ response' = noResponse
         /\ previous' = noCall
         /\ touched' = FALSE

AddSkill(skill) ==
    /\ pc # "enrich"
    /\ Len(addSkill(nodes, skill)) <= MaxNodes
    /\ nodes' = addSkill(nodes, skill)
    /\ UNCHANGED <<edges, relationships>>
    /\ written
    /\ UNCHANGED <<fetchVars, timeVars>>

AddRole(role) ==
    /\ pc # "enrich"
    /\ Len(addRole(nodes, role)) <= MaxNodes
    /\ nodes' = addRole(nodes, role)
    /\ UNCHANGED <<edges, relationships>>
    /\ written
    /\ UNCHANGED <<fetchVars, timeVars>>

CreateRelationship(from, to, relationship) ==
    /\ pc # "enrich"
    /\ edges' = edgesAdd(edges, from, to)
    /\ relationships' = relationshipsAdd(relationships, from, to, relationship)
    /\ UNCHANGED nodes
    /\ written
    /\ UNCHANGED <<fetchVars, timeVars>>

Disconnect ==
    /\ nodes' = <<>>
    /\ edges' = emptyMap
    /\ relationships' = [k \in {} |-> <<>>]
    /\ written
    /\ UNCHANGED <<fetchVars, timeVars>>

\* seedData, in closed form.  The addSkill and addRole calls are Map.set
\* calls in a row: a key is placed where it was first set and holds what was
\* set last.
setAll(ns, added) ==
    LET all    == ns \o added
        firsts == {i \in 1..Len(all) : \A j \in 1..(i - 1) : all[j].id # all[i].id}
        nth(k) == CHOOSE i \in firsts : Cardinality({j \in firsts : j <= i}) = k
        last(i) == CHOOSE j \in i..Len(all) :
                      /\ all[j].id = all[i].id
                      /\ \A h \in (j + 1)..Len(all) : all[h].id # all[i].id
    IN [k \in 1..Cardinality(firsts) |-> all[last(nth(k))]]

seedNodes(ns, skills, roles) ==
    setAll(ns, [i \in 1..Len(skills) |-> skillAsNode(skills[i])]
               \o [i \in 1..Len(roles) |-> roleAsNode(roles[i])])

\* the createRelationship calls of seedData in a row
seedEdges(es, rels) ==
    [k \in DOMAIN es \cup {rels[i].from : i \in 1..Len(rels)} |->
        (IF k \in DOMAIN es THEN es[k] ELSE {})
        \cup {rels[i].to : i \in {j \in 1..Len(rels) : rels[j].from = k}}]

seedRels(rs, rels) ==
    [k \in DOMAIN rs \cup {relKey(rels[i].from, rels[i].to) : i \in 1..Len(rels)} |->
        LET mine == SelectSeq(rels, LAMBDA r : relKey(r.from, r.to) = k) IN
        (IF k \in DOMAIN rs THEN rs[k] ELSE <<>>)
        \o [i \in 1..Len(mine) |-> mine[i].rel]]

\* connect(): seedData() on the store as it is.  initialize() calls it once,
\* on a store that holds nothing
Connect ==
    /\ pc # "enrich"
    /\ nodes = <<>> /\ relCount(relationships) = 0
    /\ nodes' = seedNodes(nodes, seedSkills, seedRoles)
    /\ edges' = seedEdges(edges, seedRelationships)
    /\ relationships' = seedRels(relationships, seedRelationships)
    /\ written
    /\ UNCHANGED <<fetchVars, timeVars>>

-----------------------------------------------------------------------------
(* generatePathway.  The call runs without interruption up to the first     *)
(* discovery it awaits and from the last discovery's answer to its return;  *)
(* the discoveries of the skill gaps answer in any order, and store         *)
(* operations of other requests or of the shutdown handler may run between. *)

\* the graph-derived part of a response
summary(req, resp) ==
    [valid |-> TRUE,
     request |-> req,
     success |-> resp.success,
     skillGaps |-> IF resp.success
                   THEN [i \in 1..Len(resp.skillGaps) |-> resp.skillGaps[i].skill]
                   ELSE <<>>,
     confidence |-> IF resp.success THEN resp.confidenceScore ELSE conf(0, 1)]

\* a variant that lines the answers up from the last gap to the first
foundsReversed(res) == [i \in 1..Len(res) |-> res[Len(res) + 1 - i].found]

\* Promise.all: the answers in the order of the gaps, not of their arrival
founds(res) == [i \in 1..Len(res) |-> res[i].found]

\* a variant that registers the requested role in the store
GeneratePathwayStartRegistering(skills, role) ==
    /\ pc \in {"idle", "done"}
    /\ nodes' = addRole(nodes, [name |-> role, category |-> "Requested", demand |-> "low"])
    /\ pc' = "done"
    /\ UNCHANGED <<edges, relationships, request, pathResult, cause, resources,
                   response, previous, touched, fetchVars, timeVars>>

GeneratePathwayStart(skills, role) ==
    /\ pc \in {"idle", "done"}
    /\ LET req    == [skills |-> skills, role |-> role]
           result == findShortestPath(nodes, edges, relationships, skills, role)
       IN /\ request' = req
          /\ pathResult' = result
          /\ cause' = result.error
          /\ previous' = IF pc = "done" /\ ~touched /\ request = req
                         THEN summary(request, response) ELSE noCall
          /\ touched' = FALSE
          /\ resources' = [i \in 1..Len(result.skillGaps) |-> pending]
          /\ IF result.error # "none"
             THEN /\ pc' = "done"
                  /\ response' = generationError(result.error)
             ELSE IF Len(result.skillGaps) = 0
             THEN /\ pc' = "done"
                  /\ response' = assemble(nodes, req, result, <<>>)
             ELSE /\ pc' = "enrich"
                  /\ response' = noResponse
    /\ UNCHANGED <<graphVars, fetchVars, timeVars>>

\* the discovery of gap i answers; the last answer lets the call finish
DiscoveryReturns(i, found) ==
    /\ pc = "enrich"
    /\ i \in 1..Len(resources)
    /\ ~resources[i].done
    /\ LET after == [resources EXCEPT ![i] = [done |-> TRUE, found |-> found]] IN
       /\ resources' = after
       /\ IF \A k \in 1..Len(after) : after[k].done
          THEN /\ pc' = "done"
               /\ response' = assemble(nodes, request, pathResult, founds(after))
          ELSE UNCHANGED <<pc, response>>
    /\ UNCHANGED <<request, pathResult, cause, previous, touched>>
    /\ UNCHANGED <<graphVars, fetchVars, timeVars>>

-----------------------------------------------------------------------------
(* Resource discovery and ranking: EnhancedResourceFetcher in               *)
(* src/services/resource-fetcher.ts.  A SearchResult keeps title, url,      *)
(* provider, cost and rating; description, duration and quality_score are   *)
(* carried through by the source and read by nothing, and are left out.     *)
(* A field a JSON item does not give is "" (or 0 for the rating).  The      *)
(* character "^" stands for an unpaired UTF-16 surrogate, the one input on  *)
(* which encodeURIComponent throws.                                         *)

startsWith(s, prefix) == Len(s) >= Len(prefix) /\ SubSeq(s, 1, Len(prefix)) = prefix

\* the index of the first occurrence of sub in s, 0 when there is none
indexOf(s, sub) ==
    LET at == {i \in 1..(Len(s) - Len(sub) + 1) : SubSeq(s, i, i + Len(sub) - 1) = sub}
    IN IF at = {} THEN 0 ELSE CHOOSE i \in at : \A j \in at : i <= j

\* s.replace(sub, by) for a string pattern: the first occurrence only
replaceFirst(s, sub, by) ==
    LET i == indexOf(s, sub) IN
    IF i = 0 THEN s
    ELSE SubSeq(s, 1, i - 1) \o by \o SubSeq(s, i + Len(sub), Len(s))

\* s.replace(/sub/g, by)
RECURSIVE replaceAll(_, _, _)
replaceAll(s, sub, by) ==
    LET i == indexOf(s, sub) IN
    IF i = 0 THEN s
    ELSE SubSeq(s, 1, i - 1) \o by \o replaceAll(SubSeq(s, i + Len(sub), Len(s)), sub, by)

trim(s) ==
    LET kept == {i \in 1..Len(s) : ~IsWhitespace(charAt(s, i))} IN
    IF kept = {} THEN ""
    ELSE SubSeq(s, CHOOSE i \in kept : \A j \in kept : i <= j,
                   CHOOSE i \in kept : \A j \in kept : j <= i)

IsWordChar(c) ==
    c # "" /\ includes("abcdefghijklmnopqrstuvwxyzABCDEFGHIJKLMNOPQRSTUVWXYZ0123456789_", c)

throwsURIError(s) == includes(s, "^")

encodeChar(c) ==
    CASE c = " " -> "%20" [] c = "&" -> "%26" [] c = "+" -> "%2B"
      [] c = "/" -> "%2F" [] c = "?" -> "%3F" [] c = "=" -> "%3D"
      [] c = ":" -> "%3A" [] c = "," -> "%2C" [] c = "%" -> "%25"
      [] c = "#" -> "%23" [] c = "@" -> "%40" [] c = "$" -> "%24"
      [] c = ";" -> "%3B" [] OTHER -> c

\* encodeURIComponent of a string it does not throw on
RECURSIVE encodeURIComponent(_)
encodeURIComponent(s) ==
    IF Len(s) = 0 THEN ""
    ELSE IF Len(s) = 1 THEN encodeChar(s)
    ELSE LET half == Len(s) \div 2 IN
         encodeURIComponent(SubSeq(s, 1, half))
         \o encodeURIComponent(SubSeq(s, half + 1, Len(s)))

\* s.replace(/[^\w\s]/g, by)
RECURSIVE replaceNonWord(_, _)
replaceNonWord(s, by) ==
    IF Len(s) = 0 THEN ""
    ELSE IF Len(s) = 1 THEN (IF IsWordChar(s) \/ IsWhitespace(s) THEN s ELSE by)
    ELSE LET half == Len(s) \div 2 IN
         replaceNonWord(SubSeq(s, 1, half), by)
         \o replaceNonWord(SubSeq(s, half + 1, Len(s)), by)

courseProviders ==
    <<[name |-> "Coursera", costIndicator |-> "mixed", qualityScore |-> 95],
      [name |-> "edX", costIndicator |-> "mixed", qualityScore |-> 90],
      [name |-> "LinkedIn Learning", costIndicator |-> "paid", qualityScore |-> 85],
      [name |-> "Udemy", costIndicator |-> "paid", qualityScore |-> 75],
      [name |-> "Microsoft Learn", costIndicator |-> "free", qualityScore |-> 88],
      [name |-> "Google AI Education", costIndicator |-> "free", qualityScore |-> 87],
      [name |-> "IBM SkillsBuild", costIndicator |-> "free", qualityScore |-> 80],
      [name |-> "AWS Training", costIndicator |-> "mixed", qualityScore |-> 83],
      [name |-> "Pluralsight", costIndicator |-> "paid", qualityScore |-> 82],
      [name |-> "FutureLearn", costIndicator |-> "mixed", qualityScore |-> 78]>>

\* a builder's answer: [threw, url, title]
built(url, title) == [threw |-> FALSE, url |-> url, title |-> title]
builderThrew == [threw |-> TRUE, url |-> "", title |-> ""]

buildCourseraSearch(name, searchTerm) ==
    LET skill == toLowerCase(name)
        ai    == includes(skill, "ai") \/ includes(skill, "machine learning")
        data  == includes(skill, "data") \/ includes(skill, "analytics")
        mgmt  == includes(skill, "management") \/ includes(skill, "business")
        generic == ~ai /\ ~data /\ ~mgmt
        searchQuery ==
            IF ai THEN (IF includes(skill, "customer") THEN "ai+customer+analytics"
                        ELSE IF includes(skill, "conversational")
                        THEN "conversational+ai+chatbot"
                        ELSE "machine+learning+ai")
            ELSE IF data THEN (IF includes(skill, "visualization")
                               THEN "data+visualization+analytics"
                               ELSE "data+science+analytics")
            ELSE IF mgmt THEN "business+management"
            ELSE replaceAll(encodeURIComponent(searchTerm), "%20", "+")
        specificTitle ==
            IF ai THEN (IF includes(skill, "customer")
                        THEN "AI for Customer Analytics Specialization"
                        ELSE IF includes(skill, "conversational")
                        THEN "Conversational AI Specialization"
                        ELSE "Machine Learning Specialization")
            ELSE IF data THEN (IF includes(skill, "visualization")
                               THEN "Data Visualization Specialization"
                               ELSE "Data Science Specialization")
            ELSE IF mgmt THEN "Business Management Specialization"
            ELSE name \o " Specialization"
    IN IF generic /\ throwsURIError(searchTerm) THEN builderThrew
       ELSE built("https://www.coursera.org/search?query=" \o searchQuery
                  \o "&index=prod_all_launched_products_term_optimization",
                  specificTitle)

buildEdXSearch(name, searchTerm) ==
    LET skill == toLowerCase(name)
        ai    == includes(skill, "ai") \/ includes(skill, "machine learning")
                 \/ includes(skill, "computer science")
        data  == includes(skill, "data") \/ includes(skill, "analytics")
        mgmt  == includes(skill, "business") \/ includes(skill, "management")
        generic == ~ai /\ ~data /\ ~mgmt
        searchQuery ==
            IF ai THEN (IF includes(skill, "customer")
                        THEN "artificial+intelligence+customer+analytics"
                        ELSE IF includes(skill, "automation")
                        THEN "ai+automation+machine+learning"
                        ELSE "artificial+intelligence+machine+learning")
            ELSE IF data THEN "data+science+analytics"
            ELSE IF mgmt THEN "business+management"
            ELSE replaceAll(encodeURIComponent(searchTerm), "%20", "+")
        specificTitle ==
            IF ai THEN (IF includes(skill, "customer") THEN "AI Customer Analytics Course"
                        ELSE IF includes(skill, "automation") THEN "AI and Automation Course"
                        ELSE "Introduction to Artificial Intelligence")
            ELSE IF data THEN "Data Science and Analytics Course"
            ELSE IF mgmt THEN "Business Management Course"
            ELSE name \o " Course"
    IN IF generic /\ throwsURIError(searchTerm) THEN builderThrew
       ELSE built("https://www.edx.org/search?q=" \o searchQuery, specificTitle)

buildMicrosoftLearnSearch(name, searchTerm) ==
    LET skill == toLowerCase(name)
        ai    == includes(skill, "ai") \/ includes(skill, "artificial intelligence")
                 \/ includes(skill, "machine learning")
        data  == includes(skill, "data") \/ includes(skill, "analytics")
        auto  == includes(skill, "automation") \/ includes(skill, "workflow")
        cloud == includes(skill, "cloud") \/ includes(skill, "azure")
        m365  == includes(skill, "office") \/ includes(skill, "365")
                 \/ includes(skill, "microsoft")
        cleanTerm == trim(replaceNonWord(searchTerm, ""))
    IN IF ai
       THEN (IF includes(skill, "customer") \/ includes(skill, "analytics")
             THEN built("https://learn.microsoft.com/en-us/training/browse/?terms=ai%20customer%20analytics",
                        "AI Customer Analytics")
             ELSE IF includes(skill, "automation")
             THEN built("https://learn.microsoft.com/en-us/training/browse/?terms=ai%20automation%20power%20platform",
                        "AI Automation with Power Platform")
             ELSE IF includes(skill, "conversational")
             THEN built("https://learn.microsoft.com/en-us/training/browse/?terms=ai%20bot%20conversational%20framework",
                        "Conversational AI and Bot Framework")
             ELSE built("https://learn.microsoft.com/en-us/training/browse/?terms=artificial%20intelligence%20azure",
                        "AI Fundamentals on Azure"))
       ELSE IF data
       THEN (IF includes(skill, "visualization")
             THEN built("https://learn.microsoft.com/en-us/training/browse/?terms=power%20bi%20data%20visualization",
                        "Data Visualization with Power BI")
             ELSE IF includes(skill, "science")
             THEN built("https://learn.microsoft.com/en-us/training/browse/?terms=data%20science%20azure%20machine%20learning",
                        "Data Science on Azure")
             ELSE built("https://learn.microsoft.com/en-us/training/browse/?terms=data%20analytics%20azure",
                        "Data Analytics on Azure"))
       ELSE IF auto
       THEN (IF includes(skill, "power")
             THEN built("https://learn.microsoft.com/en-us/training/browse/?terms=power%20automate%20workflow",
                        "Power Automate Workflows")
             ELSE IF includes(skill, "scheduling")
             THEN built("https://learn.microsoft.com/en-us/training/browse/?terms=automation%20scheduling%20azure",
                        "Automation and Scheduling")
             ELSE built("https://learn.microsoft.com/en-us/training/browse/?terms=process%20automation%20power%20platform",
                        "Process Automation"))
       ELSE IF cloud
       THEN built("https://learn.microsoft.com/en-us/training/browse/?terms=azure%20fundamentals",
                  "Azure Cloud Fundamentals")
       ELSE IF m365
       THEN built("https://learn.microsoft.com/en-us/training/browse/?terms=microsoft%20365%20productivity",
                  "Microsoft 365 Productivity")
       ELSE built("https://learn.microsoft.com/en-us/training/browse/?terms="
                  \o encodeURIComponent(cleanTerm),
                  name \o " Training")

\* a SearchResult; rating 0 and the empty string stand for an absent field
result(title, url, provider, cost, rating) ==
    [title |-> title, titleType |-> "string", url |-> url, provider |-> provider,
     cost |-> cost, rating |-> rating]

\* replace(/course|training|...|guide/gi, ''): the leftmost match is cut,
\* then the rest is searched
CourseWords ==
    <<"course", "training", "certification", "fundamentals", "introduction",
      "advanced", "complete", "guide">>

RECURSIVE removeCourseWords(_)
removeCourseWords(s) ==
    LET lower == toLowerCase(s)
        hits  == {<<i, w>> \in (1..Len(s)) \X (1..Len(CourseWords)) :
                     startsWith(SubSeq(lower, i, Len(s)), CourseWords[w])}
    IN IF hits = {} THEN s
       ELSE LET first == CHOOSE h \in hits : \A g \in hits : h[1] <= g[1] IN
            SubSeq(s, 1, first[1] - 1)
            \o removeCourseWords(SubSeq(s, first[1] + Len(CourseWords[first[2]]), Len(s)))

\* s.replace(/\s+/g, ' ') on the characters lo..hi of s
RECURSIVE collapseWhitespaceIn(_, _, _)
collapseWhitespaceIn(s, lo, hi) ==
    IF lo > hi THEN ""
    ELSE IF lo = hi
    THEN (IF ~IsWhitespace(charAt(s, lo)) THEN charAt(s, lo)
          ELSE IF lo < Len(s) /\ IsWhitespace(charAt(s, lo + 1)) THEN ""
          ELSE " ")
    ELSE LET mid == (lo + hi) \div 2 IN
         collapseWhitespaceIn(s, lo, mid) \o collapseWhitespaceIn(s, mid + 1, hi)

extractSearchTerms(title) ==
    IF title = "" THEN ""
    ELSE LET spaced == replaceNonWord(removeCourseWords(title), " ") IN
         trim(collapseWhitespaceIn(spaced, 1, Len(spaced)))

keepsUrl(originalUrl) ==
    \/ includes(originalUrl, "search") \/ includes(originalUrl, "browse")
    \/ includes(originalUrl, "?q=") \/ includes(originalUrl, "query=")
    \/ includes(originalUrl, "terms=")

\* whether convertToSearchUrl rebuilds the URL of this item from its title
rebuilds(item) ==
    /\ item.url # "" /\ item.provider # ""
    /\ ~keepsUrl(item.url)
    /\ \/ includes(toLowerCase(item.provider), "coursera")
       \/ includes(toLowerCase(item.provider), "edx")
       \/ includes(toLowerCase(item.provider), "microsoft")

\* [threw, url]: title.replace is not a function on a title that is no
\* string, and a builder may throw
convertToSearchUrl(item) ==
    IF ~rebuilds(item) THEN [threw |-> FALSE, url |-> item.url]
    ELSE IF item.titleType # "string" THEN [threw |-> TRUE, url |-> ""]
    ELSE LET providerLower == toLowerCase(item.provider)
             searchTerms   == extractSearchTerms(item.title)
             search == IF includes(providerLower, "coursera")
                       THEN buildCourseraSearch("", searchTerms)
                       ELSE IF includes(providerLower, "edx")
                       THEN buildEdXSearch("", searchTerms)
                       ELSE buildMicrosoftLearnSearch("", searchTerms)
         IN [threw |-> search.threw, url |-> search.url]

\* the items of the JSON array of the answer, mapped; an exception in the
\* map leaves nothing
parseGrokResponse(items) ==
    IF \E i \in 1..Len(items) : convertToSearchUrl(items[i]).threw THEN <<>>
    ELSE [i \in 1..Len(items) |->
            [title |-> items[i].title,
             titleType |-> items[i].titleType,
             url |-> convertToSearchUrl(items[i]).url,
             provider |-> items[i].provider,
             cost |-> IF items[i].cost = "" THEN "unknown" ELSE items[i].cost,
             rating |-> IF items[i].rating = 0 THEN 40 ELSE items[i].rating]]

\* the numbered entries of an answer that holds no JSON array: an entry with
\* title and URL is kept, with its cost in lower case and without rating
parseStructuredText(entries) ==
    LET kept == SelectSeq(entries, LAMBDA e : e.title # "" /\ e.url # "") IN
    [i \in 1..Len(kept) |->
        [title |-> kept[i].title, titleType |-> "string", url |-> kept[i].url,
         provider |-> kept[i].provider, cost |-> toLowerCase(kept[i].cost),
         rating |-> 0]]

\* searchWithGrok on what the provider answered: nothing without API key, on
\* a network or HTTP error and on an answer that does not parse
searchWithGrok(answer) ==
    CASE answer.kind = "json" -> parseGrokResponse(answer.items)
      [] answer.kind = "text" -> parseStructuredText(answer.items)
      [] OTHER -> <<>>

generateSearchTerms(name) ==
    <<toLowerCase(name)>>
    \o (IF includes(name, "AI")
        THEN <<replaceFirst(name, "AI", "artificial intelligence"),
               replaceFirst(name, "AI", "machine learning")>>
        ELSE <<>>)
    \o (IF includes(name, "Analytics")
        THEN <<replaceFirst(name, "Analytics", "analysis"),
               replaceFirst(name, "Analytics", "data science")>>
        ELSE <<>>)
    \o <<name \o " course", name \o " training", name \o " certification">>

\* [threw, results]: the result constructed for the term, none for a
\* provider without builder
constructProviderResult(searchTerm, provider, name) ==
    LET search ==
            CASE provider.name = "Coursera" -> buildCourseraSearch(name, searchTerm)
              [] provider.name = "edX" -> buildEdXSearch(name, searchTerm)
              [] provider.name = "Microsoft Learn" -> buildMicrosoftLearnSearch(name, searchTerm)
              [] provider.name = "Google AI Education" ->
                    built("https://developers.google.com/machine-learning/crash-course",
                          name \o " Fundamentals")
              [] OTHER -> builderThrew
        known == provider.name \in {"Coursera", "edX", "Microsoft Learn", "Google AI Education"}
    IN IF ~known THEN [threw |-> FALSE, results |-> <<>>]
       ELSE IF search.threw THEN [threw |-> TRUE, results |-> <<>>]
       ELSE [threw |-> FALSE,
             results |-> <<result(search.title, search.url, provider.name,
                                  IF provider.costIndicator = "free" THEN "free" ELSE "paid",
                                  42)>>]

searchSpecificProvider(name, provider) ==
    LET searchTerms == slice(generateSearchTerms(name), 2)
        each == [i \in 1..Len(searchTerms) |->
                    constructProviderResult(searchTerms[i], provider, name)]
    IN IF \E i \in 1..Len(each) : each[i].threw THEN [threw |-> TRUE, results |-> <<>>]
       ELSE [threw |-> FALSE,
             results |-> each[1].results \o each[2].results]

\* the results of the first five providers; a provider whose search threw
\* contributes nothing
RECURSIVE searchProviders(_, _)
searchProviders(name, providers) ==
    IF providers = <<>> THEN <<>>
    ELSE searchSpecificProvider(name, Head(providers)).results
         \o searchProviders(name, Tail(providers))

searchProviderSpecific(name) == searchProviders(name, slice(courseProviders, 5))

searchCourseAggregators(name) ==
    IF throwsURIError(name) THEN [threw |-> TRUE, results |-> <<>>]
    ELSE [threw |-> FALSE,
          results |->
            <<result(name \o " Courses",
                     "https://www.classcentral.com/search?q=" \o encodeURIComponent(name),
                     "Class Central", "mixed", 40),
              result(name \o " Training Programs",
                     "https://www.coursereport.com/schools?track=" \o encodeURIComponent(name),
                     "Course Report", "paid", 41)>>]

getEnhancedCuratedResources(name) ==
    CASE name = "AI-Powered Customer Analytics" ->
           <<result("Customer Analytics",
                    "https://www.coursera.org/learn/wharton-customer-analytics",
                    "Coursera", "free", 46),
             result("AI Fundamentals",
                    "https://learn.microsoft.com/en-us/training/paths/get-started-with-artificial-intelligence-on-azure/",
                    "Microsoft Learn", "free", 45)>>
      [] name = "Conversational AI Management" ->
           <<result("ChatGPT Prompt Engineering for Developers",
                    "https://www.deeplearning.ai/short-courses/chatgpt-prompt-engineering-for-developers/",
                    "DeepLearning.AI", "free", 48),
             result("AI Fundamentals",
                    "https://learn.microsoft.com/en-us/training/paths/get-started-with-artificial-intelligence-on-azure/",
                    "Microsoft Learn", "free", 45)>>
      [] name = "Customer Journey Automation" ->
           <<result("Marketing Automation",
                    "https://academy.hubspot.com/courses/marketing-automation",
                    "HubSpot Academy", "free", 45)>>
      [] name = "Workflow Automation Tools" ->
           <<result("Automate processes with Power Automate",
                    "https://learn.microsoft.com/en-us/training/paths/automate-process-power-automate/",
                    "Microsoft Learn", "free", 46),
             result("Zapier Automation Course",
                    "https://zapier.com/learn/automation/",
                    "Zapier", "free", 44)>>
      [] OTHER -> <<>>

\* addUniqueResults: [allResults, seenUrls] after the loop over newResults
RECURSIVE addUniqueResults(_, _, _)
addUniqueResults(all, newResults, seen) ==
    IF newResults = <<>> THEN [allResults |-> all, seenUrls |-> seen]
    ELSE LET r == Head(newResults) IN
         IF r.url # "" /\ r.url \notin seen
         THEN addUniqueResults(Append(all, r), Tail(newResults), seen \cup {r.url})
         ELSE addUniqueResults(all, Tail(newResults), seen)

\* the host of a URL new URL() accepts, in lower case
hostname(url) ==
    LET rest == SubSeq(url, indexOf(url, "://") + 3, Len(url))
        ends == {i \in 1..Len(rest) : charAt(rest, i) \in {"/", "?", "#"}}
    IN toLowerCase(IF ends = {} THEN rest
                   ELSE SubSeq(rest, 1, (CHOOSE i \in ends : \A j \in ends : i <= j) - 1))

\* new URL(url) does not throw and the scheme is http or https
isValidUrl(url) ==
    /\ startsWith(url, "http://") \/ startsWith(url, "https://")
    /\ hostname(url) # ""
    /\ \A i \in 1..Len(hostname(url)) : ~IsWhitespace(charAt(hostname(url), i))

providerMap ==
    <<<<"coursera.org", "Coursera">>, <<"edx.org", "edX">>, <<"udemy.com", "Udemy">>,
      <<"linkedin.com", "LinkedIn Learning">>, <<"docs.microsoft.com", "Microsoft Learn">>,
      <<"developers.google.com", "Google">>, <<"aws.amazon.com", "AWS Training">>,
      <<"pluralsight.com", "Pluralsight">>, <<"skillsbuild.org", "IBM SkillsBuild">>,
      <<"futurelearn.com", "FutureLearn">>>>

\* for a URL isValidUrl admits
extractProvider(url) ==
    LET hits == {i \in 1..Len(providerMap) : includes(hostname(url), providerMap[i][1])}
    IN IF hits = {} THEN "Online Platform"
       ELSE providerMap[CHOOSE i \in hits : \A j \in hits : i <= j][2]

processAndValidateResults(results) ==
    LET valid == SelectSeq(results, LAMBDA r : r.url # "" /\ isValidUrl(r.url)) IN
    [i \in 1..Len(valid) |->
        [title |-> IF valid[i].title = "" THEN "Untitled Course" ELSE valid[i].title,
         titleType |-> valid[i].titleType,
         provider |-> IF valid[i].provider = "" THEN extractProvider(valid[i].url)
                      ELSE valid[i].provider,
         url |-> valid[i].url,
         cost |-> IF valid[i].cost \in {"free", "paid"} THEN valid[i].cost ELSE "free",
         rating |-> IF valid[i].rating = 0 THEN 40 ELSE valid[i].rating,
         verified |-> TRUE]]

\* the URLs processAndValidateResults sends a request to before it marks
\* their candidates verified: none, its "basic URL validation" only parses
requestedUrls(results) == {results[i].url : i \in {}}

\* the score the map callback of scoreAndRankResources computes, in tenths
computedScore(resource, name) ==
    LET hits == {i \in 1..Len(courseProviders) : courseProviders[i].name = resource.provider}
    IN (IF hits = {} THEN 0 ELSE courseProviders[CHOOSE i \in hits : TRUE].qualityScore)
       + (IF resource.rating = 0 THEN 40 ELSE resource.rating) * 2
       + (IF resource.cost = "free" THEN 50 ELSE 0)
       + (IF includes(toLowerCase(resource.title), toLowerCase(name)) THEN 100 ELSE 0)
       + (IF resource.verified THEN 30 ELSE 0)

withScore(resource, name) ==
    [title |-> resource.title, titleType |-> resource.titleType,
     provider |-> resource.provider, url |-> resource.url, cost |-> resource.cost,
     rating |-> resource.rating, verified |-> resource.verified,
     computed_score |-> computedScore(resource, name)]

\* a variant of the sort that puts the later of two equal scores first
RECURSIVE sortByScoreLaterFirst(_)
sortByScoreLaterFirst(scored) ==
    IF scored = <<>> THEN <<>>
    ELSE LET x      == scored[Len(scored)]
             sorted == sortByScoreLaterFirst(SubSeq(scored, 1, Len(scored) - 1))
             before == SelectSeq(sorted, LAMBDA y : y.computed_score > x.computed_score)
             after  == SelectSeq(sorted, LAMBDA y : y.computed_score <= x.computed_score)
         IN before \o <<x>> \o after

\* Array.prototype.sort with (a, b) => b.computed_score - a.computed_score:
\* descending, and stable
RECURSIVE sortByScore(_)
sortByScore(scored) ==
    IF scored = <<>> THEN <<>>
    ELSE LET x      == scored[Len(scored)]
             sorted == sortByScore(SubSeq(scored, 1, Len(scored) - 1))
             before == SelectSeq(sorted, LAMBDA y : y.computed_score >= x.computed_score)
             after  == SelectSeq(sorted, LAMBDA y : y.computed_score < x.computed_score)
         IN before \o <<x>> \o after

\* [threw, resources]: title.toLowerCase is not a function on a title that
\* is no string
scoreAndRankResources(verifiedResources, name) ==
    IF \E i \in 1..Len(verifiedResources) : verifiedResources[i].titleType # "string"
    THEN [threw |-> TRUE, resources |-> <<>>]
    ELSE [threw |-> FALSE,
          resources |-> sortByScore([i \in 1..Len(verifiedResources) |->
                                        withScore(verifiedResources[i], name)])]

\* the resourceMap of getSkillResources' catch block
learningResource(title, provider, url, rating) ==
    [title |-> title, titleType |-> "string", provider |-> provider, url |-> url,
     cost |-> "free", rating |-> rating, verified |-> TRUE]

fallbackResources(name) ==
    CASE name = "AI Tools Proficiency" ->
           <<learningResource("AI For Everyone", "Coursera",
                              "https://www.coursera.org/learn/ai-for-everyone", 48)>>
      [] name = "Prompt Engineering" ->
           <<learningResource("ChatGPT Prompt Engineering for Developers", "DeepLearning.AI",
                              "https://www.deeplearning.ai/short-courses/chatgpt-prompt-engineering-for-developers/",
                              49)>>
      [] name = "Process Automation" ->
           <<learningResource("Microsoft Power Automate Fundamentals", "Microsoft Learn",
                              "https://docs.microsoft.com/learn/paths/automate-process-power-automate/",
                              46)>>
      [] OTHER -> <<>>

-----------------------------------------------------------------------------
(* getSkillResources and, inside it, findVerifiedResources, step by step *)

MaxGrok == 2        \* items in one answer of the external search provider

item(title, titleType, url, provider, cost, rating) ==
    [title |-> title, titleType |-> titleType, url |-> url, provider |-> provider,
     cost |-> cost, rating |-> rating]

GrokItems ==
    {item("Prompt Engineering Basics", "string",
          "https://www.udemy.com/course/prompt-engineering", "Udemy", "free", 49),
     item("Prompt Engineering Basics", "string",
          "https://www.udemy.com/course/prompt-engineering?utm_source=grok", "Udemy",
          "free", 49),
     item("", "string", "https://example.org/learn", "", "", 0),
     item("AI Course Guide", "string", "https://www.coursera.org/learn/ai", "Coursera",
          "paid", 45),
     item("Archive", "string", "ftp://example.org/archive", "Udemy", "free", 30),
     item("42", "number", "https://www.udemy.com/course/numbers", "Udemy", "paid", 41)}

RECURSIVE seqsUpTo(_, _)
seqsUpTo(S, n) ==
    IF n = 0 THEN {<<>>}
    ELSE seqsUpTo(S, n - 1)
         \cup {Append(s, x) : s \in {t \in seqsUpTo(S, n - 1) : Len(t) = n - 1}, x \in S}

GrokAnswers ==
    {[kind |-> "none", items |-> <<>>]}
    \cup {[kind |-> "json", items |-> items] : items \in seqsUpTo(GrokItems, MaxGrok)}
    \cup {[kind |-> "text", items |-> <<x>>] :
            x \in {i \in GrokItems : i.titleType = "string" /\ i.provider # "Coursera"}}

\* "^" is a skill name with an unpaired surrogate
SkillNames == {"Prompt Engineering", "AI-Powered Customer Analytics", "^"}

notRanked == [threw |-> FALSE, input |-> <<>>, output |-> <<>>]

InitFetch ==
    /\ fpc = "idle"
    /\ skillName = ""
    /\ grokResults = <<>>
    /\ allResults = <<>>
    /\ seenUrls = {}
    /\ ranked = notRanked
    /\ fetched = <<>>

\* getSkillResources(name) calls findVerifiedResources(name)
GetSkillResources(name) ==
    /\ fpc \in {"idle", "returned"}
    /\ fpc' = "grok"
    /\ skillName' = name
    /\ grokResults' = <<>>
    /\ allResults' = <<>>
    /\ seenUrls' = {}
    /\ ranked' = notRanked
    /\ fetched' = <<>>
    /\ UNCHANGED <<graphVars, genVars, timeVars>>

\* strategy 1, once the provider has answered
SearchWithGrok(answer) ==
    /\ fpc = "grok"
    /\ grokResults' = searchWithGrok(answer)
    /\ LET merged == addUniqueResults(allResults, searchWithGrok(answer), seenUrls) IN
       /\ allResults' = merged.allResults
       /\ seenUrls' = merged.seenUrls
    /\ fpc' = "providers"
    /\ UNCHANGED <<skillName, ranked, fetched, graphVars, genVars, timeVars>>

\* strategy 2
SearchProviderSpecific ==
    /\ fpc = "providers"
    /\ LET merged == addUniqueResults(allResults, searchProviderSpecific(skillName), seenUrls) IN
       /\ allResults' = merged.allResults
       /\ seenUrls' = merged.seenUrls
    /\ fpc' = "aggregators"
    /\ UNCHANGED <<skillName, grokResults, ranked, fetched, graphVars, genVars, timeVars>>

\* strategy 3; what it throws ends the try block, which it closes anyway
SearchCourseAggregators ==
    /\ fpc = "aggregators"
    /\ LET merged == addUniqueResults(allResults, searchCourseAggregators(skillName).results,
                                      seenUrls) IN
       /\ allResults' = merged.allResults
       /\ seenUrls' = merged.seenUrls
    /\ fpc' = "curated"
    /\ UNCHANGED <<skillName, grokResults, ranked, fetched, graphVars, genVars, timeVars>>

\* "if (allResults.length < 3)": the curated resources of the skill
AddCuratedResources ==
    /\ fpc = "curated"
    /\ LET merged == IF Len(allResults) < 3
                     THEN addUniqueResults(allResults, getEnhancedCuratedResources(skillName),
                                           seenUrls)
                     ELSE [allResults |-> allResults, seenUrls |-> seenUrls] IN
       /\ allResults' = merged.allResults
       /\ seenUrls' = merged.seenUrls
    /\ fpc' = "rank"
    /\ UNCHANGED <<skillName, grokResults, ranked, fetched, graphVars, genVars, timeVars>>

\* validation, ranking and the return of the best three; when the ranking
\* throws, getSkillResources returns the entry of its own resourceMap
RankAndReturn ==
    /\ fpc = "rank"
    /\ LET verifiedResources == processAndValidateResults(allResults)
           rankedResources   == scoreAndRankResources(verifiedResources, skillName)
       IN /\ ranked' = [threw |-> rankedResources.threw,
                        input |-> verifiedResources,
                        output |-> rankedResources.resources]
          /\ fetched' = IF rankedResources.threw THEN fallbackResources(skillName)
                        ELSE slice(rankedResources.resources, 3)
    /\ fpc' = "returned"
    /\ UNCHANGED <<skillName, grokResults, allResults, seenUrls, graphVars, genVars, timeVars>>

-----------------------------------------------------------------------------
(* Stores whose names lead to close ids: names that differ in letter case   *)
(* only, and a name that holds the word "skill"                             *)

Sql == [name |-> "SQL", category |-> "Analytics",
        difficulty |-> "beginner", estimatedHours |-> 20]
SqlLowerCase == [name |-> "sql", category |-> "Databases",
                 difficulty |-> "advanced", estimatedHours |-> 40]
SqlSkillSql == [name |-> "SQL Skill SQL", category |-> "Analytics",
                difficulty |-> "intermediate", estimatedHours |-> 30]
IdSkillInputs == {Sql, SqlLowerCase, SqlSkillSql}

IdRoleInputs == {DataAnalyst}

\* createRelationship between ids that addSkill and addRole give these names
IdRelInputs ==
    {[from |-> skillId(Sql.name), to |-> skillId(SqlSkillSql.name),
      rel |-> rel("LEADS_TO", 3)],
     [from |-> skillId(SqlSkillSql.name), to |-> skillId(Sql.name),
      rel |-> rel("LEADS_TO", 9)],
     [from |-> skillId(Sql.name), to |-> roleId(DataAnalyst.name),
      rel |-> rel("REQUIRED_FOR", 8)]}

IdSkillLists == {<<>>, <<"SQL">>, <<"sql">>, <<"SQL Skill SQL">>}

-----------------------------------------------------------------------------
(* Stores for the path search: positive strengths, two routes to the role,  *)
(* a cycle, two relationships on one pair, and an id that is no node        *)

MaxPathRels == 4    \* relationships createRelationship adds to such a store

PathRelInputs ==
    {[from |-> "skill-data-analysis", to |-> "skill-machine-learning-basics",
      rel |-> rel("LEADS_TO", 8)],
     [from |-> "skill-machine-learning-basics", to |-> "role-ai-enhanced-data-analyst",
      rel |-> rel("REQUIRED_FOR", 9)],
     [from |-> "skill-data-analysis", to |-> "role-ai-enhanced-data-analyst",
      rel |-> rel("LEADS_TO", 3)],
     [from |-> "skill-data-analysis", to |-> "role-ai-enhanced-data-analyst",
      rel |-> rel("REQUIRED_FOR", 9)],
     [from |-> "skill-machine-learning-basics", to |-> "skill-data-analysis",
      rel |-> rel("LEADS_TO", 9)],
     [from |-> "skill-data-analysis", to |-> "skill-statistics",
      rel |-> rel("LEADS_TO", 9)],
     [from |-> "skill-statistics", to |-> "role-ai-enhanced-data-analyst",
      rel |-> rel("REQUIRED_FOR", 9)]}

PathSkillLists ==
    {<<>>, <<"Data Analysis">>, <<"Machine Learning Basics">>,
     <<"Data Analysis", "Machine Learning Basics">>,
     <<"Machine Learning Basics", "Data Analysis">>}

-----------------------------------------------------------------------------
(* Calls of the store's writers with arguments the signatures admit: a     *)
(* skill under a name already stored, and strengths of any sign and size   *)
(* (properties is a Record<string, any>)                                    *)

\* "Data Analysis" once more, with other attributes
DataAnalysisAdvanced == [name |-> "Data Analysis", category |-> "Analytics",
                         difficulty |-> "advanced", estimatedHours |-> 40]
StoreSkillInputs == {DataAnalysis, DataAnalysisAdvanced, MachineLearning}

StoreRoleInputs == {DataAnalyst}

StoreRelInputs ==
    {[from |-> "skill-data-analysis", to |-> "role-ai-enhanced-data-analyst",
      rel |-> rel("REQUIRED_FOR", 15)],
     [from |-> "skill-data-analysis", to |-> "role-ai-enhanced-data-analyst",
      rel |-> rel("LEADS_TO", 0)],
     [from |-> "skill-data-analysis", to |-> "role-ai-enhanced-data-analyst",
      rel |-> rel("LEADS_TO", 0 - 5)],
     [from |-> "skill-data-analysis", to |-> "skill-machine-learning-basics",
      rel |-> rel("LEADS_TO", 8)],
     [from |-> "skill-machine-learning-basics", to |-> "role-ai-enhanced-data-analyst",
      rel |-> rel("REQUIRED_FOR", 6)]}

-----------------------------------------------------------------------------
(* calculateEstimatedTime on two lists of skill gaps *)

MaxHours == 90      \* the hours of a lone skill gap run from 0 to MaxHours

gapOf(hours) == [skill |-> "Data Analysis", estimatedHours |-> hours]

GapLists ==
    {<<gapOf(h)>> : h \in 0..MaxHours}
    \cup {<<>>, <<gapOf(15), gapOf(25)>>, <<gapOf(40), gapOf(45), gapOf(45)>>}

CalculateEstimatedTimeA ==
    /\ timeA = ""
    /\ timeA' = calculateEstimatedTime(gapsA)
    /\ UNCHANGED <<gapsA, gapsB, timeB, milestones, graphVars, genVars, fetchVars>>

CalculateEstimatedTimeB ==
    /\ timeB = ""
    /\ timeB' = calculateEstimatedTime(gapsB)
    /\ UNCHANGED <<gapsA, gapsB, timeA, milestones, graphVars, genVars, fetchVars>>

-----------------------------------------------------------------------------
(* generateMilestones on one skill gap *)

\* names with an own template list, without one, and a key that the
\* template table inherits from Object.prototype
MilestoneNames == {"Prompt Engineering", "Data Analysis", "constructor"}

MilestoneGaps ==
    {<<[skill |-> name, estimatedHours |-> h]>> : name \in MilestoneNames, h \in 0..MaxHours}

notGenerated == [called |-> FALSE, threw |-> FALSE, value |-> <<>>]

\* one call of generateMilestones.  For an inherited key,
\* milestoneTemplates[skillName] is a truthy member of Object.prototype, the
\* "|| [...]" default is not taken, and templates.slice is not a function
GenerateMilestones ==
    /\ ~milestones.called
    /\ Len(gapsA) = 1
    /\ milestones' =
          IF gapsA[1].skill \in ObjectPrototypeKeys
          THEN [called |-> TRUE, threw |-> TRUE, value |-> <<>>]
          ELSE [called |-> TRUE, threw |-> FALSE,
                value |-> generateMilestones(gapsA[1].skill, gapsA[1].estimatedHours)]
    /\ UNCHANGED <<gapsA, gapsB, timeA, timeB, graphVars, genVars, fetchVars>>

-----------------------------------------------------------------------------
(* Specifications *)

InitTime ==
    /\ gapsA = <<>> /\ gapsB = <<>>
    /\ timeA = "" /\ timeB = ""
    /\ milestones = notGenerated

Init == InitGraph /\ InitGen /\ InitFetch /\ InitTime

Next ==
    \/ \E skill \in SkillInputs : AddSkill(skill)
    \/ \E role \in RoleInputs : AddRole(role)
    \/ \E r \in RelInputs :
          relCount(relationships) < MaxRels /\ CreateRelationship(r.from, r.to, r.rel)
    \/ Disconnect
    \/ \E skills \in SkillLists, role \in RoleNames : GeneratePathwayStart(skills, role)
    \/ \E i \in 1..3, found \in DiscoveryOutcomes : DiscoveryReturns(i, found)

Spec == Init /\ [][Next]_vars

NextSeed ==
    \/ Connect
    \/ \E k \in 1..MaxChainRels :
          /\ relCount(relationships) = Len(seedRelationships) + k - 1
          /\ CreateRelationship(ChainEdge(k).from, ChainEdge(k).to, ChainEdge(k).rel)
    \/ Disconnect
    \/ \E r \in SeedRequests : GeneratePathwayStart(r.skills, r.role)
    \/ \E i \in 1..3, found \in DiscoveryOutcomes : DiscoveryReturns(i, found)

SpecSeed == Init /\ [][NextSeed]_vars


InitDurations ==
    /\ InitGraph /\ InitGen /\ InitFetch
    /\ gapsA \in GapLists /\ gapsB \in GapLists
    /\ timeA = "" /\ timeB = ""
    /\ milestones = notGenerated

NextTime == CalculateEstimatedTimeA \/ CalculateEstimatedTimeB

SpecTime == InitDurations /\ [][NextTime]_vars

NextFetch ==
    \/ \E name \in SkillNames : GetSkillResources(name)
    \/ \E answer \in GrokAnswers : SearchWithGrok(answer)
    \/ SearchProviderSpecific
    \/ SearchCourseAggregators
    \/ AddCuratedResources
    \/ RankAndReturn

SpecFetch == Init /\ [][NextFetch]_vars

NextStore ==
    \/ \E skill \in StoreSkillInputs : AddSkill(skill)
    \/ \E role \in StoreRoleInputs : AddRole(role)
    \/ \E r \in StoreRelInputs :
          relCount(relationships) < MaxRels /\ CreateRelationship(r.from, r.to, r.rel)
    \/ Disconnect
    \/ \E skills \in SkillLists, role \in RoleNames : GeneratePathwayStart(skills, role)
    \/ \E i \in 1..3, found \in DiscoveryOutcomes : DiscoveryReturns(i, found)

SpecStore == Init /\ [][NextStore]_vars

\* A step findVerifiedResources takes by itself: from these positions it
\* waits for nothing outside the process (strategies 2 and 3 build their
\* candidates locally), so the step is taken sooner or later.  At "grok" the
\* call waits for the answer of the search provider, by "await fetch(...)"
\* with neither a timeout nor an abort signal: nothing in the code makes
\* that answer arrive, so SearchWithGrok has no fairness condition.
LocalStep ==
    /\ fpc \in {"providers", "aggregators", "curated", "rank"}
    /\ fpc' \in {"aggregators", "curated", "rank", "returned"}

SpecFetchLive == Init /\ [][NextFetch]_vars /\ WF_fpc(LocalStep)

NextPaths ==
    \/ \E skill \in SkillInputs : AddSkill(skill)
    \/ \E role \in {DataAnalyst} : AddRole(role)
    \/ \E r \in PathRelInputs :
          relCount(relationships) < MaxPathRels /\ CreateRelationship(r.from, r.to, r.rel)
    \/ \E skills \in PathSkillLists : GeneratePathwayStart(skills, DataAnalyst.name)
    \/ \E i \in 1..3, found \in DiscoveryOutcomes : DiscoveryReturns(i, found)

SpecPaths == Init /\ [][NextPaths]_vars

InitMilestones ==
    /\ InitGraph /\ InitGen /\ InitFetch
    /\ gapsA \in MilestoneGaps /\ gapsB = <<>>
    /\ timeA = "" /\ timeB = ""
    /\ milestones = notGenerated

NextMilestones == GenerateMilestones \/ CalculateEstimatedTimeA

SpecMilestones == InitMilestones /\ [][NextMilestones]_vars

NextIds ==
    \/ \E skill \in IdSkillInputs : AddSkill(skill)
    \/ \E role \in IdRoleInputs : AddRole(role)
    \/ \E r \in IdRelInputs :
          relCount(relationships) < MaxRels /\ CreateRelationship(r.from, r.to, r.rel)
    \/ \E skills \in IdSkillLists : GeneratePathwayStart(skills, DataAnalyst.name)
    \/ \E i \in 1..3, found \in DiscoveryOutcomes : DiscoveryReturns(i, found)

SpecIds == Init /\ [][NextIds]_vars

-----------------------------------------------------------------------------
(* Claims about the graph store and generatePathway *)

confAtLeast(a, b) == a.total * b.count >= b.total * a.count

seededStore ==
    /\ nodes = seedNodes(<<>>, seedSkills, seedRoles)
    /\ edges = seedEdges(emptyMap, seedRelationships)
    /\ relationships = seedRels([k \in {} |-> <<>>], seedRelationships)

\* C1: no skill gap findShortestPath returns carries a name of the caller's
\* known-skill list, whether the gaps come from a found path or from the
\* static fallback table.
C1_NoKnownSkillAmongGaps ==
    pathResult.error = "none" =>
        \A i \in 1..Len(pathResult.skillGaps) :
            ~arrayIncludes(request.skills, pathResult.skillGaps[i].name)

\* C2: on the seeded store, generatePathway(["Project Management"],
\* "AI-Enhanced Project Manager") succeeds with exactly three skill gaps, one
\* of them "AI Tools Proficiency" with 20 estimated hours, and a confidence
\* of at least 0.6.
C2_SeedScenario ==
    (/\ pc = "done"
     /\ request = [skills |-> <<"Project Management">>,
                   role |-> "AI-Enhanced Project Manager"]
     /\ seededStore)
    => /\ response.success
       /\ Len(response.skillGaps) = 3
       /\ \E i \in 1..Len(response.skillGaps) :
             /\ response.skillGaps[i].skill = "AI Tools Proficiency"
             /\ response.skillGaps[i].estimatedHours = 20
       /\ confAtLeast(response.confidenceScore, conf(6, 1))

\* whether the store holds a REQUIRED_FOR relationship from the skill of
\* that name straight to the role of that name
directlyRequired(name, roleName) ==
    LET skill == findNode(nodes, name, "skill")
        role  == findNode(nodes, roleName, "role")
    IN /\ skill # null
       /\ role # null
       /\ skill.id \in DOMAIN edges
       /\ role.id \in edges[skill.id]
       /\ \E i \in 1..Len(relationshipsOf(relationships, skill.id, role.id)) :
             relationshipsOf(relationships, skill.id, role.id)[i].type = "REQUIRED_FOR"

\* C3: when the known-skill list holds a skill with a direct REQUIRED_FOR
\* edge to the target role, the confidence returned is strictly above 0.6.
C3_DirectEdgeConfidence ==
    (/\ pc # "idle"
     /\ ~touched
     /\ pathResult.error = "none"
     /\ \E i \in 1..Len(request.skills) : directlyRequired(request.skills[i], request.role))
    => confGreater(pathResult.confidence, conf(6, 1))

\* any step of a generatePathway call
GenerateStep ==
    \/ \E skills \in SkillLists, role \in RoleNames : GeneratePathwayStart(skills, role)
    \/ \E i \in 1..3, found \in DiscoveryOutcomes : DiscoveryReturns(i, found)

C9_AtMostThreeGaps ==
    /\ Len(pathResult.skillGaps) <= 3
    /\ response.success => Len(response.skillGaps) <= 3
    /\ \A i \in 1..Len(roleSkillMap) :
          Len(limitSkillGaps(getRequiredSkillsForRole(roleSkillMap[i].role))) <= 3

C9_Witness ==
    /\ pc = "done"
    /\ response.success
    /\ Len(extractSkillGaps(pathResult.path, request.skills)) > 3
    /\ Len(response.skillGaps) = 3

\* C10: generatePathway with no known skill and a role without fallback
\* entry ends in one of two ways: the unknown-role error (no node of that
\* role), or a pathway with no skill gap and confidence 0.6.
C10_EmptyKnownNoFallback ==
    (/\ pc = "done"
     /\ request.skills = <<>>
     /\ ~hasFallbackEntry(request.role))
    => \/ cause = "RoleNotFound" /\ ~response.success
       \/ /\ cause = "none"
          /\ response.success
          /\ response.skillGaps = <<>>
          /\ confEqual(response.confidenceScore, conf(6, 1))

-----------------------------------------------------------------------------
(* Claims about calculateEstimatedTime *)

\* the weeks a printed duration denotes, a month counting as 4 weeks
durationWeeks(time) ==
    LET counts == 0..(2 * MaxHours + 50) IN
    IF \E n \in counts : time = toString(n) \o " weeks"
    THEN CHOOSE n \in counts : time = toString(n) \o " weeks"
    ELSE 4 * (CHOOSE n \in counts : time = toString(n) \o " months")

\* C8: of two totals of gap hours, the larger never gets the shorter
\* estimated duration (a month counted as 4 weeks).
C8_DurationMonotone ==
    (timeA # "" /\ timeB # "" /\ sumHours(gapsA) <= sumHours(gapsB))
    => durationWeeks(timeA) <= durationWeeks(timeB)

C8_Witness ==
    /\ timeA # "" /\ timeB # ""
    /\ sumHours(gapsA) < sumHours(gapsB)
    /\ durationWeeks(timeA) = 8
    /\ durationWeeks(timeB) = 12
    /\ timeB = "3 months"

-----------------------------------------------------------------------------
(* Claims on the resource discovery *)

\* the parts of s between the occurrences of sep
RECURSIVE split(_, _)
split(s, sep) ==
    IF ~includes(s, sep) THEN <<s>>
    ELSE <<SubSeq(s, 1, indexOf(s, sep) - 1)>>
         \o split(SubSeq(s, indexOf(s, sep) + Len(sep), Len(s)), sep)

RECURSIVE join(_, _)
join(parts, sep) ==
    IF parts = <<>> THEN ""
    ELSE IF Len(parts) = 1 THEN parts[1]
    ELSE parts[1] \o sep \o join(Tail(parts), sep)

\* scheme, host and path, and the query without its tracking parameters
normalizedUrl(url) ==
    LET base   == split(url, "?")[1]
        query  == IF includes(url, "?")
                  THEN split(SubSeq(url, indexOf(url, "?") + 1, Len(url)), "&")
                  ELSE <<>>
        kept   == SelectSeq(query, LAMBDA p : p # "" /\ ~startsWith(p, "utm_"))
    IN IF kept = <<>> THEN base ELSE base \o "?" \o join(kept, "&")

\* C4: the list one call of findVerifiedResources returns never holds two
\* candidates whose URLs are equal after normalization (scheme, host and path,
\* tracking query parameters ignored).
C4_NoDuplicateNormalizedUrl ==
    (fpc = "returned" /\ ~ranked.threw) =>
        \A i, j \in 1..Len(fetched) :
            i < j => normalizedUrl(fetched[i].url) # normalizedUrl(fetched[j].url)

\* the composite score as the specification states it, in tenths
compositeScore(candidate, name) ==
    LET roster == {p \in {courseProviders[i] : i \in 1..Len(courseProviders)} :
                       p.name = candidate.provider}
    IN (IF roster = {} THEN 0 ELSE (CHOOSE p \in roster : TRUE).qualityScore)
       + 2 * candidate.rating
       + (IF candidate.cost = "free" THEN 50 ELSE 0)
       + (IF includes(toLowerCase(candidate.title), toLowerCase(name)) THEN 100 ELSE 0)
       + (IF candidate.verified THEN 30 ELSE 0)

candidateOf(r) == [f \in DOMAIN r \ {"computed_score"} |-> r[f]]

candidatesOf(rs) == [i \in 1..Len(rs) |-> candidateOf(rs[i])]

scoresOf(rs, name) == {compositeScore(rs[i], name) : i \in 1..Len(rs)}

withCompositeScore(rs, name, s) ==
    SelectSeq(candidatesOf(rs), LAMBDA r : compositeScore(r, name) = s)

PromptEngineeringAlwaysFound ==
    (fpc \in {"curated", "rank", "returned"} /\ skillName = "Prompt Engineering") =>
        Len(allResults) >= 3

PromptEngineeringNeverEmpty ==
    (fpc = "returned" /\ skillName = "Prompt Engineering") => fetched # <<>>

-----------------------------------------------------------------------------
(* Claims about the store's writers *)

\* C11: addSkill or addRole for a kind and name the store already holds
\* leaves the stored node and its attributes as they were.
C11_DuplicateNodeKept ==
    [][/\ \A skill \in StoreSkillInputs :
             (AddSkill(skill) /\ findNode(nodes, skill.name, "skill") # null)
                 => nodes' = nodes
       /\ \A role \in StoreRoleInputs :
             (AddRole(role) /\ findNode(nodes, role.name, "role") # null)
                 => nodes' = nodes
      ]_vars

\* C12: in every state of the store, also right after connect() has seeded
\* it, both endpoints of every stored relationship are stored nodes.
C12_EndpointsAreStoredNodes ==
    \A from \in DOMAIN edges :
        /\ from \in nodeIds(nodes)
        /\ \A to \in edges[from] : to \in nodeIds(nodes)

\* C13: every stored relationship has a strength above 0, and every edge
\* weight the path search reads is positive.
C13_StrengthsPositive ==
    /\ \A key \in DOMAIN relationships :
          \A i \in 1..Len(relationships[key]) : relationships[key][i].strength > 0
    /\ \A from \in DOMAIN edges :
          \A to \in edges[from] : getEdgeWeight(relationships, from, to) > 0

\* the largest strength among the relationships of a pair
strongest(rels) ==
    CHOOSE s \in {rels[i].strength : i \in 1..Len(rels)} :
        \A i \in 1..Len(rels) : rels[i].strength <= s

\* C14: the edge weight of a pair is 1/strength of the pair's strongest
\* relationship, whatever the order the relationships were created in, and
\* 1.0 for a pair without relationship.
C14_WeightOfStrongest ==
    \A from \in nodeIds(nodes), to \in nodeIds(nodes) :
        IF Len(relationshipsOf(relationships, from, to)) = 0
        THEN getEdgeWeight(relationships, from, to) = WeightScale
        ELSE getEdgeWeight(relationships, from, to)
                 * strongest(relationshipsOf(relationships, from, to)) = WeightScale * 10

\* C19: the confidence of every PathResult findShortestPath returns lies
\* between 0 and 1.
C19_ConfidenceInUnitInterval ==
    (pc # "idle" /\ pathResult.error = "none") =>
        /\ pathResult.confidence.total >= 0
        /\ pathResult.confidence.total <= 10 * pathResult.confidence.count

\* C20: findShortestPath fails with the unknown-role error only for a role
\* that has no entry in the fallback table; a role without node but with
\* an entry gets the entry's skills and confidence 0.6.
C20_UnknownRoleOnlyWithoutFallback ==
    (pc # "idle" /\ pathResult.error = "RoleNotFound") => ~hasFallbackEntry(request.role)

-----------------------------------------------------------------------------
(* Claims about one discover call *)

isPrefix(s, t) == Len(s) <= Len(t) /\ SubSeq(t, 1, Len(s)) = s

\* what a strategy throws is contained: the strategies run in their fixed
\* order whatever the earlier ones did, and no step drops a candidate
\* already admitted
StrategiesRunInOrder ==
    [][/\ fpc = "grok" => fpc' = "providers" /\ isPrefix(allResults, allResults')
       /\ fpc = "providers" => fpc' = "aggregators" /\ isPrefix(allResults, allResults')
       /\ fpc = "aggregators" => fpc' = "curated" /\ isPrefix(allResults, allResults')
       /\ fpc = "curated" => fpc' = "rank" /\ isPrefix(allResults, allResults')
       /\ fpc = "rank" => fpc' = "returned" /\ allResults' = allResults
      ]_vars

\* C15: whatever one strategy does (fail, or hand back a malformed answer
\* of its provider), the discover call is not aborted: it returns the
\* ranking of the candidates merged from the strategies.
C15_StrategyNeverAbortsCall ==
    fpc = "returned" => /\ ~ranked.threw
                        /\ fetched = slice(ranked.output, 3)

\* whether a returned candidate is an entry of a curated table
fromCuratedTable(candidate, name) ==
    \/ \E i \in 1..Len(getEnhancedCuratedResources(name)) :
          getEnhancedCuratedResources(name)[i].url = candidate.url
    \/ \E i \in 1..Len(fallbackResources(name)) :
          fallbackResources(name)[i].url = candidate.url

\* C16: a candidate a discover call returns as verified passed a
\* reachability request, or comes from the curated fallback table.
C16_VerifiedOnlyIfReachable ==
    fpc = "returned" =>
        \A i \in 1..Len(fetched) :
            fetched[i].verified =>
                \/ fetched[i].url \in requestedUrls(allResults)
                \/ fromCuratedTable(fetched[i], skillName)

\* C18: every discover call completes, also when the search provider never
\* answers: the request is given up after its timeout and counts as no
\* result of that strategy.
C18_DiscoverCallCompletes == (fpc = "grok") ~> (fpc = "returned")

\* once the provider has answered, the call does complete
AnsweredCallCompletes == (fpc = "providers") ~> (fpc = "returned")

-----------------------------------------------------------------------------
(* Claims about the outcome of generatePathway *)

PathwayFields ==
    {"success", "targetRole", "currentSkills", "skillGaps", "estimatedTime",
     "confidenceScore", "alternatives", "encouragement"}

\* a pathway with every field, and every gap of the path result enriched
completePathway(resp) ==
    /\ DOMAIN resp = PathwayFields
    /\ resp.success
    /\ resp.targetRole = request.role
    /\ resp.currentSkills = request.skills
    /\ resp.confidenceScore = pathResult.confidence
    /\ resp.estimatedTime # ""
    /\ Len(resp.skillGaps) = Len(pathResult.skillGaps)
    /\ \A i \in 1..Len(resp.skillGaps) :
          /\ resp.skillGaps[i].skill = pathResult.skillGaps[i].name
          /\ resp.skillGaps[i].estimatedHours = pathResult.skillGaps[i].estimatedHours
          /\ resp.skillGaps[i].resources = slice(resources[i].found, 3)
          /\ Len(resp.skillGaps[i].milestones) >= 2

-----------------------------------------------------------------------------
(* Claims about the path search *)

\* the call in flight or just completed ran findShortestPath on the store as
\* it is now, from the one known skill of its request, which is a node
searchedFromOneOrigin ==
    /\ pc # "idle"
    /\ ~touched
    /\ pathResult.error = "none"
    /\ Len(request.skills) = 1
    /\ findNode(nodes, request.skills[1], "skill") # null

originId == findNode(nodes, request.skills[1], "skill").id
targetId == findNode(nodes, request.role, "role").id

\* the ids of the path a PathResult carries
idsOf(path) == [k \in 1..Len(path) |-> path[k].id]

\* every directed path without repeated id that extends p to end, along the
\* stored edges and through the ids of within
RECURSIVE directedPaths(_, _, _, _)
directedPaths(es, within, p, end) ==
    LET last == p[Len(p)] IN
    IF last = end THEN {p}
    ELSE UNION {directedPaths(es, within, Append(p, n), end) :
                   n \in {m \in (IF last \in DOMAIN es THEN es[last] ELSE {}) \cap within :
                             \A k \in 1..Len(p) : p[k] # m}}

\* every id the store knows of, as a node or as an end of an edge
storeIds == nodeIds(nodes) \cup DOMAIN edges \cup UNION {edges[k] : k \in DOMAIN edges}

\* the total weight of a path: the sum over its hops of 1/strength, each hop
\* taken by the strongest relationship of its pair
RECURSIVE totalWeight(_, _, _)
totalWeight(rs, p, i) ==
    IF i >= Len(p) THEN 0
    ELSE (WeightScale * 10) \div strongest(relationshipsOf(rs, p[i], p[i + 1]))
         + totalWeight(rs, p, i + 1)

\* the total weight the search itself gives a path
RECURSIVE searchWeight(_, _, _)
searchWeight(rs, p, i) ==
    IF i >= Len(p) THEN 0
    ELSE getEdgeWeight(rs, p[i], p[i + 1]) + searchWeight(rs, p, i + 1)

\* C21: from an origin skill node from which the target role node can be
\* reached along directed edges, the search returns a path of minimum total
\* weight (the sum of 1/strength over its edges) among all directed paths
\* from the origin to the target; when the target cannot be reached it
\* returns the empty path.
C21_ReturnsLightestPath ==
    searchedFromOneOrigin =>
        LET all   == directedPaths(edges, storeIds, <<originId>>, targetId)
            found == idsOf(pathResult.path)
        IN IF all = {} THEN found = <<>>
           ELSE /\ found \in all
                /\ \A p \in all :
                      totalWeight(relationships, found, 1) <= totalWeight(relationships, p, 1)

\* the search is exact for what it measures: among the directed paths through
\* stored nodes, the returned one is lightest by getEdgeWeight
LightestByEdgeWeight ==
    searchedFromOneOrigin =>
        LET all   == directedPaths(edges, nodeIds(nodes), <<originId>>, targetId)
            found == idsOf(pathResult.path)
        IN IF all = {} THEN found = <<>>
           ELSE /\ found \in all
                /\ \A p \in all :
                      searchWeight(relationships, found, 1) <= searchWeight(relationships, p, 1)

\* C29: a non-empty path the search returns starts at the node of a known
\* skill, ends at the target role node, holds no node twice and only stored
\* nodes, and each of its nodes has a stored edge to the next one; also in
\* stores with a cycle and with edges to ids that are no nodes.
C29_PathIsWellFormed ==
    (pc # "idle" /\ ~touched /\ pathResult.error = "none" /\ Len(pathResult.path) > 0) =>
        LET p == idsOf(pathResult.path) IN
        /\ \E i \in 1..Len(request.skills) :
              /\ findNode(nodes, request.skills[i], "skill") # null
              /\ p[1] = findNode(nodes, request.skills[i], "skill").id
        /\ p[Len(p)] = targetId
        /\ \A i, j \in 1..Len(p) : i # j => p[i] # p[j]
        /\ \A k \in 1..Len(p) :
              p[k] \in nodeIds(nodes) /\ pathResult.path[k] = nodeOf(nodes, p[k])
        /\ \A k \in 1..(Len(p) - 1) :
              p[k] \in DOMAIN edges /\ p[k + 1] \in edges[p[k]]

\* a path of two hops was found in a store that holds a cycle and an edge to
\* an id that is no node
C29_Witness ==
    /\ pc # "idle" /\ ~touched /\ pathResult.error = "none"
    /\ Len(pathResult.path) = 3
    /\ "skill-machine-learning-basics" \in DOMAIN edges
    /\ "skill-data-analysis" \in edges["skill-machine-learning-basics"]
    /\ storeIds \ nodeIds(nodes) # {}

\* the known skills, by position in the caller's list, that resolve to a node
\* from which the search reaches the target
reachingOrigins ==
    {i \in 1..Len(request.skills) :
        /\ findNode(nodes, request.skills[i], "skill") # null
        /\ Len(dijkstra(nodes, edges, relationships,
                        findNode(nodes, request.skills[i], "skill").id, targetId)) > 0}

\* the shortest path of the known skill at position i
shortestPathOf(i) ==
    dijkstra(nodes, edges, relationships,
             findNode(nodes, request.skills[i], "skill").id, targetId)

\* the average edge strength of a path, each edge as strong as the strongest
\* relationship of its pair
RECURSIVE sumStrongest(_, _, _)
sumStrongest(rs, p, i) ==
    IF i >= Len(p) THEN 0
    ELSE strongest(relationshipsOf(rs, p[i], p[i + 1])) + sumStrongest(rs, p, i + 1)

averageStrength(p) == conf(sumStrongest(relationships, p, 1), Len(p) - 1)

\* the same average, each edge as strong as the first relationship of its pair
averageOfFirst(p) == calculatePathConfidence(relationships, p)

\* C22: among the shortest paths of the known skills that resolve to nodes
\* and reach the target, findShortestPath returns the one of highest average
\* edge strength, its confidence is that average, and among equals the path
\* of the skill that comes first in the caller's list.
C22_HighestAverageStrength ==
    (pc # "idle" /\ ~touched /\ pathResult.error = "none" /\ reachingOrigins # {}) =>
        \E i \in reachingOrigins :
            /\ idsOf(pathResult.path) = shortestPathOf(i)
            /\ confEqual(pathResult.confidence, averageStrength(shortestPathOf(i)))
            /\ \A j \in reachingOrigins :
                  /\ ~confGreater(averageStrength(shortestPathOf(j)),
                                  averageStrength(shortestPathOf(i)))
                  /\ confEqual(averageStrength(shortestPathOf(j)),
                               averageStrength(shortestPathOf(i))) => i <= j

\* the choice among the origins is exact for what the search measures: with
\* each edge as strong as the first relationship of its pair, the returned
\* path is the first of highest average and the confidence is that average
HighestAverageOfFirst ==
    (pc # "idle" /\ ~touched /\ pathResult.error = "none" /\ reachingOrigins # {}) =>
        \E i \in reachingOrigins :
            /\ idsOf(pathResult.path) = shortestPathOf(i)
            /\ pathResult.confidence = averageOfFirst(shortestPathOf(i))
            /\ \A j \in reachingOrigins :
                  /\ ~confGreater(averageOfFirst(shortestPathOf(j)),
                                  averageOfFirst(shortestPathOf(i)))
                  /\ confEqual(averageOfFirst(shortestPathOf(j)),
                               averageOfFirst(shortestPathOf(i))) => i <= j

\* C23: for a target role that is a node, findShortestPath takes the fallback
\* (empty path, confidence 0.6, the first 3 entries of the role's
\* required-skills table or none without entry) exactly when the known-skill
\* list is empty, or no known skill is a node, or no known skill that is a
\* node has a path to the target.
C23_FallbackExactlyWithoutPath ==
    (pc # "idle" /\ ~touched /\ findNode(nodes, request.role, "role") # null) =>
        IF reachingOrigins = {}
        THEN /\ pathResult.error = "none"
             /\ pathResult.path = <<>>
             /\ pathResult.confidence = conf(6, 1)
             /\ pathResult.skillGaps = slice(getRequiredSkillsForRole(request.role), 3)
        ELSE /\ pathResult.error = "none"
             /\ Len(pathResult.path) > 0

-----------------------------------------------------------------------------
(* Claims about milestones and the estimated time *)

\* C24: for every skill name and every estimated-hours value from 0 on,
\* generateMilestones produces 2 to 4 milestones, each with estimatedHours
\* ceil(totalHours / number of milestones produced).
C24_MilestonesSplitHours ==
    milestones.called =>
        /\ ~milestones.threw
        /\ Len(milestones.value) \in 2..4
        /\ \A i \in 1..Len(milestones.value) :
              milestones.value[i].estimatedHours * Len(milestones.value)
                  \in gapsA[1].estimatedHours
                      ..(gapsA[1].estimatedHours + Len(milestones.value) - 1)

\* the same for the names that are no inherited key of the template table
MilestonesOfPlainNames ==
    (milestones.called /\ gapsA[1].skill \notin ObjectPrototypeKeys) =>
        /\ ~milestones.threw
        /\ Len(milestones.value) \in 2..4
        /\ \A i \in 1..Len(milestones.value) :
              milestones.value[i].estimatedHours * Len(milestones.value)
                  \in gapsA[1].estimatedHours
                      ..(gapsA[1].estimatedHours + Len(milestones.value) - 1)

\* the number of weeks of a total of hours: the least w with 10 * w >= hours
weeksOf(totalHours) == CHOOSE w \in 0..totalHours : 10 * w \in totalHours..(totalHours + 9)

\* C25: with w = ceil(totalHours / 10) for the summed hours of the gaps,
\* calculateEstimatedTime reports exactly w weeks whenever w <= 8, and a
\* count of months only when w > 8.
C25_ExactWeeksUpToEight ==
    (timeA # "" /\ weeksOf(sumHours(gapsA)) <= 8) =>
        timeA = toString(weeksOf(sumHours(gapsA))) \o " weeks"

\* what does hold: up to 4 weeks the exact count, from 5 to 8 weeks
\* "8 weeks", and months only above 8 weeks
WeeksInBlocksOfFour ==
    timeA # "" =>
        LET w == weeksOf(sumHours(gapsA)) IN
        /\ w <= 4 => timeA = toString(w) \o " weeks"
        /\ w \in 5..8 => timeA = "8 weeks"
        /\ w > 8 <=> \E n \in 1..w : timeA = toString(n) \o " months"

-----------------------------------------------------------------------------
(* Claims about one generatePathway call and what runs beside it *)

\* C26: the discoveries of the skill gaps of one call answer in any order;
\* whatever the order, the returned skill gaps stand in the order the path
\* search gave them, and each carries the resources of its own discovery
\* (the first 3 of them) and of no other.
C26_GapsKeepOrderAndOwnResources ==
    (pc = "done" /\ response.success) =>
        /\ Len(response.skillGaps) = Len(pathResult.skillGaps)
        /\ \A i \in 1..Len(response.skillGaps) :
              /\ response.skillGaps[i].skill = pathResult.skillGaps[i].name
              /\ resources[i].done
              /\ response.skillGaps[i].resources = slice(resources[i].found, 3)

\* a call with three gaps returned, the first gap's discovery having found
\* nothing and the last gap's discovery three resources
C26_Witness ==
    /\ pc = "done" /\ response.success
    /\ Len(response.skillGaps) = 3
    /\ response.skillGaps[1].resources = <<>>
    /\ Len(response.skillGaps[3].resources) = 3


\* the nodes of every store of SpecSeed that holds a role: those of seedData
seededNodes == seedNodes(<<>>, seedSkills, seedRoles)

-----------------------------------------------------------------------------
(* Claims about ids and lookup keys *)

\* C27: the relationships the store holds for an ordered pair of ids, and
\* reads for the pair's edge weight and for the path confidence, are those
\* createRelationship was given for that very pair, and none given for
\* another pair, for ids as addSkill and addRole derive them.
C27_OnlyOwnRelationships ==
    \A from \in DOMAIN edges : \A to \in edges[from] :
        \A i \in 1..Len(relationshipsOf(relationships, from, to)) :
            \E r \in IdRelInputs :
                /\ r.from = from
                /\ r.to = to
                /\ r.rel = relationshipsOf(relationships, from, to)[i]

\* C28: addSkill or addRole of a name that differs, as an exact string, from
\* the name of a stored node of the same kind leaves that node in place:
\* after the call the exact-name lookup still finds it, with its attributes.
C28_OtherNamesKeepNode ==
    [][/\ \A skill \in IdSkillInputs : AddSkill(skill) =>
             \A i \in 1..Len(nodes) :
                 (nodes[i].type = "skill" /\ nodes[i].properties.name # skill.name)
                     => findNode(nodes', nodes[i].properties.name, "skill") = nodes[i]
       /\ \A role \in IdRoleInputs : AddRole(role) =>
             \A i \in 1..Len(nodes) :
                 (nodes[i].type = "role" /\ nodes[i].properties.name # role.name)
                     => findNode(nodes', nodes[i].properties.name, "role") = nodes[i]
      ]_vars

====
